---- MODULE Spec2Model ----
(***************************************************************************)
(* DocuSearch: the job ledger of job_manager.py (JobManager), its two      *)
(* directories of persisted files, the job deletion routes of app.py, the  *)
(* inverted index of search_engine.py (SearchEngine), the metrics of       *)
(* metrics_collector.py (MetricsCollector) and the upload threads of       *)
(* app.py that call all three.                                             *)
(***************************************************************************)
EXTENDS Integers, Sequences, FiniteSets, TLC

VARIABLES
    jobs,          \* JobManager.jobs: job_id -> job_info dict
    job_metadata,  \* directory job_metadata/: job_id -> text of <job_id>.json
    job_results,   \* directory job_results/: job_id -> lines of job_<id>_results.jsonl
    clock,         \* the wall clock read by datetime.now()
    last,          \* the JobManager call that returned last, and what it returned
    calls,         \* number of calls made so far
    deleting,      \* the delete_job request in progress in app.py, if any
    index,         \* SearchEngine.index: term -> list of (doc_id, position)
    documents,     \* SearchEngine.documents: doc_id -> stored document
    document_count,\* SearchEngine.document_count
    searched,      \* the search() call that returned last, and its result
    metrics,       \* MetricsCollector: jobs, completed_jobs, document_metrics,
                   \* job_latencies, document_latencies
    metrics_file,  \* metrics.json: <<>> when absent, else <<its text>>
    lock,          \* MetricsCollector.lock: the thread that holds it, or None
    callers,       \* the threads calling MetricsCollector: where each one is
    reported,      \* what get_metrics_summary returned last
    sampled,       \* the _calculate_percentile call and its result
    indexers,      \* the threads inside SearchEngine.index_document
    upload         \* the thread handling a bulk upload request

searchVars == <<index, documents, document_count, searched>>

metricsVars == <<metrics, metrics_file, lock, callers, reported, sampled>>

threadVars == <<indexers, upload>>

vars == <<jobs, job_metadata, job_results, clock, last, calls, deleting,
          searchVars, metricsVars, threadVars>>

----------------------------------------------------------------------------
(* Bounds *)

MaxCalls == 3
MaxDiskCalls == 2
MaxFiles == 2
MaxTime == 1

----------------------------------------------------------------------------
(* Values *)

\* Python's None, where a string or a timestamp is optional
None == "None"

\* the empty dict {}
EmptyDict == <<>>

PROCESSING == "Processing"
COMPLETED == "Completed"
FAILED == "Failed"

\* the possible outcomes of str(uuid.uuid4())[:8]
JobIds == {"a1b2c3d4", "e5f6a7b8"}

\* datetime.isoformat(): the ISO-8601 text of clock reading t
isoformat(t) ==
    <<"2025-09-16T10:00:00", "2025-09-16T10:00:01", "2025-09-16T10:00:02",
      "2025-09-16T10:00:03", "2025-09-16T10:00:04", "2025-09-16T10:00:05">>[t + 1]

\* datetime.fromisoformat(): the clock reading an ISO-8601 text denotes
fromisoformat(s) == CHOOSE t \in 0..5 : isoformat(t) = s

\* dict.update(): the keys of s override those of d
DictUpdate(d, s) ==
    [k \in (DOMAIN d) \cup (DOMAIN s) |-> IF k \in DOMAIN s THEN s[k] ELSE d[k]]

\* self.jobs[job_id] = job
Put(js, job_id, job) ==
    [j \in (DOMAIN js) \cup {job_id} |-> IF j = job_id THEN job ELSE js[j]]

\* del self.jobs[job_id], os.remove(path)
Remove(d, job_id) == [j \in (DOMAIN d) \ {job_id} |-> d[j]]

----------------------------------------------------------------------------
(* JSON text *)

\* json.dumps of an optional string: None becomes null, a string is quoted
JsonStr(v) == IF v = None THEN <<>> ELSE <<v>>

\* mutant: null is read back as the text "null"
JsonStrLoadNullAsText(e) == IF e = <<>> THEN "null" ELSE e[1]

\* json.loads of the text JsonStr writes
JsonStrLoad(e) == IF e = <<>> THEN None ELSE e[1]

\* a JSON text cut short by a write that did not end: json.load and
\* json.loads raise JSONDecodeError on it
Truncated == [JSONDecodeError |-> TRUE]

\* json.loads(text) returns
Decodes(text) == "JSONDecodeError" \notin DOMAIN text

\* the keys of job_info and of a result whose value is a string or None
StrKeys == {"job_id", "status", "start_time", "end_time", "current_file",
            "data_source", "filename", "timestamp", "error", "skip_reason"}

RECURSIVE JsonDump(_)
\* json.dump of a dict: every value is written as its JSON text
JsonDump(d) ==
    [k \in DOMAIN d |->
        IF k \in StrKeys THEN JsonStr(d[k])
        ELSE IF k = "results"
             THEN [i \in 1..Len(d[k]) |-> JsonDump(d[k][i])]
             ELSE d[k]]

RECURSIVE JsonLoad(_)
\* json.load / json.loads of a text written by JsonDump
JsonLoad(t) ==
    [k \in DOMAIN t |->
        IF k \in StrKeys THEN JsonStrLoad(t[k])
        ELSE IF k = "results"
             THEN [i \in 1..Len(t[k]) |-> JsonLoad(t[k][i])]
             ELSE t[k]]

----------------------------------------------------------------------------
(* Inputs *)

\* total_files: len(files) of an upload, and the sizes that show the rounding
TotalFilesInputs == {0, MaxFiles, 50}

\* processed, successful and failed as passed to update_job_progress
ProcessedInputs == {1, MaxFiles + 1, 29}
SuccessfulInputs == {0, MaxFiles}
FailedInputs == {0, 1}

Filenames == {"a.pdf"}

\* the (success, metadata, error, skip_reason) arguments of add_file_result
FileOutcomes ==
    { [success |-> TRUE, metadata |-> [title |-> "X"], error |-> None,
       skip_reason |-> None],
      [success |-> FALSE, metadata |-> EmptyDict,
       error |-> "PDF has 600 pages, maximum allowed is 500",
       skip_reason |-> "page_limit"],
      [success |-> FALSE, metadata |-> EmptyDict,
       error |-> "Unsupported file type: image/png",
       skip_reason |-> "unsupported_type"],
      [success |-> FALSE, metadata |-> EmptyDict,
       error |-> "PDF file appears to be Corrupted", skip_reason |-> None],
      [success |-> FALSE, metadata |-> EmptyDict,
       error |-> "connection timed out", skip_reason |-> None] }

----------------------------------------------------------------------------
(* JobManager: pure parts *)

\* the job_info dict create_job builds
NewJob(job_id, total_files, metadata_options, data_source, t) ==
    [job_id |-> job_id,
     status |-> PROCESSING,
     total_files |-> total_files,
     processed_files |-> 0,
     successful_files |-> 0,
     failed_files |-> 0,
     skipped_files |-> 0,
     skipped_reasons |-> [unknown_format |-> 0, file_size_limit |-> 0,
                          page_limit |-> 0],
     corrupt_files |-> 0,
     start_time |-> isoformat(t),
     end_time |-> None,
     current_file |-> None,
     progress_percentage |-> 0,
     metadata_options |-> metadata_options,
     data_source |-> data_source,
     results |-> <<>>]

\* the (processed, total_files) pairs, both at most 100, for which the double
\* product (processed / total_files) * 100 lies just below the exact quotient
DoubleShortfall ==
    { <<23, 5>>, <<41, 5>>, <<46, 5>>, <<51, 5>>, <<82, 5>>, <<87, 5>>,
      <<92, 5>>, <<97, 5>>, <<23, 10>>, <<41, 10>>, <<46, 10>>, <<51, 10>>,
      <<82, 10>>, <<87, 10>>, <<92, 10>>, <<97, 10>>, <<69, 15>>, <<23, 20>>,
      <<41, 20>>, <<46, 20>>, <<51, 20>>, <<82, 20>>, <<87, 20>>, <<92, 20>>,
      <<97, 20>>, <<29, 25>>, <<57, 25>>, <<58, 25>>, <<69, 30>>, <<46, 40>>,
      <<82, 40>>, <<92, 40>>, <<29, 50>>, <<57, 50>>, <<58, 50>>, <<69, 60>>,
      <<87, 75>>, <<92, 80>>, <<29, 100>>, <<57, 100>>, <<58, 100>> }

\* mutant: int(processed / job['total_files']) * 100, the truncation too early
ProgressPercentageTruncatedEarly(processed, total_files) ==
    IF total_files > 0 THEN (processed \div total_files) * 100 ELSE 0

\* int((processed / job['total_files']) * 100) if job['total_files'] > 0 else 0
ProgressPercentage(processed, total_files) ==
    IF total_files > 0
    THEN ((processed * 100) \div total_files)
         - (IF <<processed, total_files>> \in DoubleShortfall THEN 1 ELSE 0)
    ELSE 0

\* error and ('corrupt' in error.lower() or 'not readable' in error.lower()
\* or 'not parsable' in error.lower()), over the error texts of FileOutcomes
IsCorruptError(error) ==
    /\ error # None
    /\ error \in {"PDF file appears to be Corrupted"}

\* mutant: (start - end).total_seconds()
CalculateProcessingTimeReversed(job) ==
    IF job.start_time = None \/ job.end_time = None
    THEN 0
    ELSE fromisoformat(job.start_time) - fromisoformat(job.end_time)

\* _calculate_processing_time
CalculateProcessingTime(job) ==
    IF job.start_time = None \/ job.end_time = None
    THEN 0
    ELSE fromisoformat(job.end_time) - fromisoformat(job.start_time)

\* the result dict add_file_result builds
NewResult(filename, o, t) ==
    [filename |-> filename,
     success |-> o.success,
     timestamp |-> isoformat(t),
     metadata |-> o.metadata,
     error |-> o.error,
     skip_reason |-> o.skip_reason]

\* mutant: skipped_reasons[skip_reason] = skipped_reasons.get(skip_reason, 0) + 1
\* without the membership test
CountResultAnyReason(job, o) ==
    IF o.success
    THEN DictUpdate(job, [successful_files |-> job.successful_files + 1])
    ELSE IF o.skip_reason # None
    THEN DictUpdate(job,
            [skipped_files |-> job.skipped_files + 1,
             skipped_reasons |->
                DictUpdate(job.skipped_reasons,
                   [k \in {o.skip_reason} |->
                      IF k \in DOMAIN job.skipped_reasons
                      THEN job.skipped_reasons[k] + 1
                      ELSE 1])])
    ELSE DictUpdate(job,
            [failed_files |-> job.failed_files + 1,
             corrupt_files |-> IF IsCorruptError(o.error)
                               THEN job.corrupt_files + 1
                               ELSE job.corrupt_files])

\* the counter updates of add_file_result, after the append
CountResult(job, o) ==
    IF o.success
    THEN DictUpdate(job, [successful_files |-> job.successful_files + 1])
    ELSE IF o.skip_reason # None
    THEN DictUpdate(job,
            [skipped_files |-> job.skipped_files + 1,
             skipped_reasons |->
                IF o.skip_reason \in DOMAIN job.skipped_reasons
                THEN [job.skipped_reasons EXCEPT ![o.skip_reason] = @ + 1]
                ELSE job.skipped_reasons])
    ELSE DictUpdate(job,
            [failed_files |-> job.failed_files + 1,
             corrupt_files |-> IF IsCorruptError(o.error)
                               THEN job.corrupt_files + 1
                               ELSE job.corrupt_files])

\* update_job_progress on the job dict
Progressed(job, current_file, processed, successful, failed) ==
    DictUpdate(job,
       [processed_files |-> processed,
        successful_files |-> successful,
        failed_files |-> failed,
        current_file |-> current_file,
        progress_percentage |-> ProgressPercentage(processed, job.total_files)])

\* mutant: job['results'].insert(0, result)
WithResultInsertedFirst(job, filename, o, t) ==
    CountResult(
       DictUpdate(job, [results |-> <<NewResult(filename, o, t)>> \o job.results]),
       o)

\* add_file_result on the job dict: the append, then the counters
WithResult(job, filename, o, t) ==
    CountResult(
       DictUpdate(job, [results |-> Append(job.results, NewResult(filename, o, t))]),
       o)

\* complete_job on the job dict
Finished(job, success, t) ==
    DictUpdate(job,
       [status |-> IF success THEN COMPLETED ELSE FAILED,
        end_time |-> isoformat(t),
        progress_percentage |-> 100])

----------------------------------------------------------------------------
(* JobManager: persistence *)

\* _save_job_metadata: job_metadata/<job_id>.json is rewritten in full
SaveJobMetadata(js, md, job_id) ==
    IF job_id \notin DOMAIN js
    THEN md
    ELSE [f \in (DOMAIN md) \cup {job_id} |->
            IF f = job_id THEN JsonDump(js[job_id]) ELSE md[f]]

\* the summary dict _save_job_results writes as the first line
Summary(job) ==
    [job_id |-> job.job_id,
     status |-> job.status,
     total_files |-> job.total_files,
     successful_files |-> job.successful_files,
     failed_files |-> job.failed_files,
     skipped_files |-> job.skipped_files,
     skipped_reasons |-> job.skipped_reasons,
     corrupt_files |-> job.corrupt_files,
     start_time |-> job.start_time,
     end_time |-> job.end_time,
     processing_time_seconds |-> CalculateProcessingTime(job),
     metadata_options |-> job.metadata_options]

\* mutant: the loop over job['results'] is left out
SaveJobResultsSummaryOnly(js, jr, job_id) ==
    IF job_id \notin DOMAIN js
    THEN jr
    ELSE LET job == js[job_id]
             lines == <<JsonDump(Summary(job))>>
         IN [f \in (DOMAIN jr) \cup {job_id} |->
                IF f = job_id THEN lines ELSE jr[f]]

\* _save_job_results: job_results/job_<job_id>_results.jsonl, one line each
SaveJobResults(js, jr, job_id) ==
    IF job_id \notin DOMAIN js
    THEN jr
    ELSE LET job == js[job_id]
             lines == <<JsonDump(Summary(job))>>
                      \o [i \in 1..Len(job.results) |-> JsonDump(job.results[i])]
         IN [f \in (DOMAIN jr) \cup {job_id} |->
                IF f = job_id THEN lines ELSE jr[f]]

\* _load_job_results_from_file: an exception of json.loads ends the load where
\* it stands, before the entry is made for the first line, after the update
\* with the summary for a later line
LoadJobResultsFromFile(js, jr, job_id) ==
    IF job_id \notin DOMAIN jr
    THEN js
    ELSE LET lines == jr[job_id]
         IN IF Len(lines) = 0 \/ ~Decodes(lines[1])
            THEN js
            ELSE LET summary == JsonLoad(lines[1])
                     entry == IF job_id \in DOMAIN js THEN js[job_id] ELSE EmptyDict
                     updated == DictUpdate(entry, summary)
                     rest == [i \in 1..(Len(lines) - 1) |-> lines[i + 1]]
                     job == IF \A i \in DOMAIN rest : Decodes(rest[i])
                            THEN DictUpdate(updated,
                                    [results |-> [i \in DOMAIN rest |->
                                                     JsonLoad(rest[i])]])
                            ELSE updated
                 IN [j \in (DOMAIN js) \cup {job_id} |->
                        IF j = job_id THEN job ELSE js[j]]

\* _load_existing_jobs: the metadata files that parse first, then the results
\* logs of the job ids no metadata file has given
LoadExistingJobs(md, jr) ==
    LET fromMetadata == [j \in {i \in DOMAIN md : Decodes(md[i])} |->
                            JsonLoad(md[j])]
        fromLog == [j \in (DOMAIN jr) \ (DOMAIN fromMetadata) |->
                       LoadJobResultsFromFile(fromMetadata, jr, j)]
        logOnly == {j \in DOMAIN fromLog : j \in DOMAIN fromLog[j]}
    IN [j \in (DOMAIN fromMetadata) \cup logOnly |->
            IF j \in DOMAIN fromMetadata
            THEN fromMetadata[j]
            ELSE fromLog[j][j]]

----------------------------------------------------------------------------
(* MetricsCollector: pure parts *)

\* deque(maxlen=1000) of job latencies, deque(maxlen=10000) of document ones
JobLatencyMaxlen == 1000
DocumentLatencyMaxlen == 10000

\* JobMetrics(job_id=job_id, start_time=time.time(), total_files=total_files,
\* status="processing"), the other fields at their defaults
JobMetrics(job_id, start_time, total_files) ==
    [job_id |-> job_id,
     start_time |-> start_time,
     end_time |-> None,
     total_files |-> total_files,
     successful_files |-> 0,
     failed_files |-> 0,
     skipped_files |-> 0,
     processing_time |-> 0,
     status |-> "processing"]

\* DocumentMetrics()
DocumentMetrics ==
    [total_processed |-> 0, total_successful |-> 0, total_failed |-> 0,
     total_skipped |-> 0, total_processing_time |-> 0,
     llm_processed |-> 0, llm_successful |-> 0, llm_failed |-> 0,
     local_processed |-> 0, local_successful |-> 0, local_failed |-> 0]

\* the fields __init__ sets before it loads the snapshot
NewMetrics ==
    [jobs |-> EmptyDict,
     completed_jobs |-> <<>>,
     document_metrics |-> DocumentMetrics,
     job_latencies |-> <<>>,
     document_latencies |-> <<>>]

\* deque(items, maxlen=maxlen): the last maxlen items are kept
Deque(items, maxlen) ==
    IF Len(items) > maxlen
    THEN SubSeq(items, Len(items) - maxlen + 1, Len(items))
    ELSE items

\* mutant: a full deque turns the new sample away
DequeAppendKeepsOldest(d, x, maxlen) ==
    IF Len(d) >= maxlen THEN d ELSE Append(d, x)

\* deque.append(x) on a deque of that maxlen
DequeAppend(d, x, maxlen) ==
    IF Len(d) >= maxlen THEN Append(Tail(d), x) ELSE Append(d, x)

\* start_job, inside the lock and before _save_metrics
StartedJob(m, job_id, total_files, t) ==
    [m EXCEPT !.jobs = Put(m.jobs, job_id, JobMetrics(job_id, t, total_files))]

\* update_job_progress of the collector, inside the lock and before
\* _save_metrics, for a job_id in self.jobs
ProgressedJob(m, job_id, successful, failed, skipped) ==
    [m EXCEPT !.jobs[job_id].successful_files = successful,
              !.jobs[job_id].failed_files = failed,
              !.jobs[job_id].skipped_files = skipped]

\* the job complete_job appends: end_time, processing_time and status set
CompletedJob(job, success, t) ==
    [job EXCEPT !.end_time = t,
                !.processing_time = t - job.start_time,
                !.status = IF success THEN "completed" ELSE "failed"]

\* complete_job: self.completed_jobs.append(job); del self.jobs[job_id]
MovedJob(m, job_id, success, t) ==
    [m EXCEPT !.completed_jobs =
                    Append(m.completed_jobs, CompletedJob(m.jobs[job_id], success, t)),
              !.jobs = Remove(m.jobs, job_id)]

\* mutant: total_skipped is not updated
FoldedJobWithoutSkipped(m, job) ==
    [m EXCEPT !.job_latencies =
                    DequeAppend(m.job_latencies, job.processing_time,
                                JobLatencyMaxlen),
              !.document_metrics.total_processed = @ + job.total_files,
              !.document_metrics.total_successful = @ + job.successful_files,
              !.document_metrics.total_failed = @ + job.failed_files,
              !.document_metrics.total_processing_time = @ + job.processing_time]

\* complete_job: the latency sample and the document totals of the job
FoldedJob(m, job) ==
    [m EXCEPT !.job_latencies =
                    DequeAppend(m.job_latencies, job.processing_time,
                                JobLatencyMaxlen),
              !.document_metrics.total_processed = @ + job.total_files,
              !.document_metrics.total_successful = @ + job.successful_files,
              !.document_metrics.total_failed = @ + job.failed_files,
              !.document_metrics.total_skipped = @ + job.skipped_files,
              !.document_metrics.total_processing_time = @ + job.processing_time]

\* parser_type in ['llm', 'llm_fallback', 'auto_local']
IsLlm(parser_type) == parser_type \in {"llm", "llm_fallback", "auto_local"}

\* the counters record_document_processing adds one to
ParserCounters(success, parser_type) ==
    IF IsLlm(parser_type)
    THEN <<"llm_processed", IF success THEN "llm_successful" ELSE "llm_failed">>
    ELSE <<"local_processed",
           IF success THEN "local_successful" ELSE "local_failed">>

\* record_document_processing: self.document_latencies.append(processing_time)
SampledDocument(m, processing_time) ==
    [m EXCEPT !.document_latencies =
                    DequeAppend(m.document_latencies, processing_time,
                                DocumentLatencyMaxlen)]

\* record_document_processing: counter += 1 for the two counters, each one
\* written as the value read plus one
CountedDocument(m, success, parser_type, read) ==
    LET c == ParserCounters(success, parser_type)
    IN [m EXCEPT !.document_metrics =
            [k \in DOMAIN m.document_metrics |->
                IF k = c[1] THEN read[1] + 1
                ELSE IF k = c[2] THEN read[2] + 1
                ELSE m.document_metrics[k]]]

\* the values record_document_processing reads for its two += 1
ReadCounters(m, success, parser_type) ==
    LET c == ParserCounters(success, parser_type)
    IN <<m.document_metrics[c[1]], m.document_metrics[c[2]]>>

\* the members of a list
Range(seq) == {seq[i] : i \in DOMAIN seq}

\* sorted(data)
sorted(data) ==
    [i \in 1..Len(data) |->
        CHOOSE v \in Range(data) :
            /\ Cardinality({j \in DOMAIN data : data[j] < v}) < i
            /\ i <= Cardinality({j \in DOMAIN data : data[j] <= v})]

\* the (percentile, len) pairs, both at most 100, for which the double
\* product (percentile / 100) * len lies just below the exact product
PercentileShortfall ==
    {<<29, 100>>, <<57, 100>>, <<58, 50>>, <<58, 100>>, <<70, 90>>}

\* mutant: index = int((percentile / 100) * (len(sorted_data) - 1))
calculate_percentile_of_last(data, percentile) ==
    IF Len(data) = 0
    THEN 0
    ELSE LET sorted_data == sorted(data)
             at == (percentile * (Len(sorted_data) - 1)) \div 100
         IN sorted_data[at + 1]

\* _calculate_percentile(data, percentile); the lists of Python count from 0
calculate_percentile(data, percentile) ==
    IF Len(data) = 0
    THEN 0
    ELSE LET sorted_data == sorted(data)
             product == ((percentile * Len(sorted_data)) \div 100)
                        - (IF <<percentile, Len(sorted_data)>>
                                  \in PercentileShortfall THEN 1 ELSE 0)
             at == IF product >= Len(sorted_data)
                      THEN Len(sorted_data) - 1
                      ELSE product
         IN sorted_data[at + 1]

RECURSIVE SumBetween(_, _, _)
\* sum(data[lo-1:hi])
SumBetween(data, lo, hi) ==
    IF lo > hi THEN 0
    ELSE IF lo = hi THEN data[lo]
    ELSE LET mid == (lo + hi) \div 2
         IN SumBetween(data, lo, mid) + SumBetween(data, mid + 1, hi)

\* statistics.mean(data) if data else 0, as the fraction sum / len
Mean(data) ==
    IF Len(data) = 0 THEN <<0, 1>> ELSE <<SumBetween(data, 1, Len(data)), Len(data)>>

\* get_metrics_summary: the "jobs" and "documents" sections of the dict it
\* returns
MetricsSummary(m) ==
    [jobs |->
        [total |-> Len(m.completed_jobs),
         successful |-> Len(SelectSeq(m.completed_jobs,
                                      LAMBDA j : j.status = "completed")),
         failed |-> Len(SelectSeq(m.completed_jobs,
                                  LAMBDA j : j.status = "failed")),
         currently_processing |-> Cardinality(DOMAIN m.jobs),
         p50_latency_seconds |-> calculate_percentile(m.job_latencies, 50),
         p95_latency_seconds |-> calculate_percentile(m.job_latencies, 95),
         avg_processing_time_seconds |-> Mean(m.job_latencies)],
     documents |->
        [total_processed |-> m.document_metrics.total_processed,
         total_successful |-> m.document_metrics.total_successful,
         total_failed |-> m.document_metrics.total_failed,
         total_skipped |-> m.document_metrics.total_skipped,
         p50_processing_time_seconds |->
             calculate_percentile(m.document_latencies, 50),
         p95_processing_time_seconds |->
             calculate_percentile(m.document_latencies, 95),
         avg_processing_time_seconds |-> Mean(m.document_latencies),
         total_processing_time_seconds |->
             m.document_metrics.total_processing_time]]

----------------------------------------------------------------------------
(* MetricsCollector: persistence *)

\* json.dump of asdict(job): job_id and status are written as JSON strings
JobMetricsDump(job) ==
    [k \in DOMAIN job |->
        IF k \in {"job_id", "status"} THEN JsonStr(job[k]) ELSE job[k]]

\* JobMetrics(**job_data) over the json.load of that text
JobMetricsLoad(job_data) ==
    [k \in DOMAIN job_data |->
        IF k \in {"job_id", "status"} THEN JsonStrLoad(job_data[k])
        ELSE job_data[k]]

\* the text _save_metrics writes: the active jobs are not in it
MetricsText(m, t) ==
    [completed_jobs |->
        [i \in 1..Len(m.completed_jobs) |-> JobMetricsDump(m.completed_jobs[i])],
     document_metrics |-> m.document_metrics,
     job_latencies |-> m.job_latencies,
     document_latencies |-> m.document_latencies,
     last_updated |-> isoformat(t)]

\* how a write of metrics.json can end: written in full, open() raising,
\* json.dump raising after open() has emptied the file
WriteOutcomes == {"written", "open_failed", "dump_failed"}

\* mutant: the file is opened for appending and keeps its first text
SaveMetricsKeepsFirst(file, m, t, outcome) ==
    IF outcome = "written" /\ Len(file) = 0 THEN <<MetricsText(m, t)>>
    ELSE IF outcome = "dump_failed" THEN <<Truncated>>
    ELSE file

\* _save_metrics: metrics.json after it; every exception is caught
SaveMetrics(file, m, t, outcome) ==
    IF outcome = "written" THEN <<MetricsText(m, t)>>
    ELSE IF outcome = "dump_failed" THEN <<Truncated>>
    ELSE file

\* __init__ and _load_metrics: the collector a start-up builds from the file
LoadMetrics(file) ==
    IF Len(file) = 0 \/ ~Decodes(file[1])
    THEN NewMetrics
    ELSE LET data == file[1]
         IN [jobs |-> EmptyDict,
             completed_jobs |->
                 [i \in 1..Len(data.completed_jobs) |->
                     JobMetricsLoad(data.completed_jobs[i])],
             document_metrics |-> data.document_metrics,
             job_latencies |-> Deque(data.job_latencies, JobLatencyMaxlen),
             document_latencies |->
                 Deque(data.document_latencies, DocumentLatencyMaxlen)]

----------------------------------------------------------------------------
(* State machine *)

\* a call that has returned: its name, its job_id and success arguments,
\* whether it found the job, and the processing_time it reported
Returned(op, job_id, success, found, processing_time) ==
    [op |-> op, job_id |-> job_id, success |-> success, found |-> found,
     processing_time |-> processing_time]

Idle == [job_id |-> None, pc |-> "idle"]

\* the search() call before any: no query, no result
NoSearch == [query |-> None, limit |-> 0, results |-> <<>>]

\* SearchEngine()
SearchEngineInit ==
    /\ index = EmptyDict
    /\ documents = EmptyDict
    /\ document_count = 0
    /\ searched = NoSearch

\* the threads that call the collector
Callers == {"t1", "t2"}

\* a thread that is in no call of the collector
NotCalling ==
    [pc |-> "idle", op |-> None, args |-> EmptyDict, wrote |-> None,
     read |-> <<>>]

\* no _calculate_percentile call yet
NoSample == [data |-> <<>>, percentile |-> 0, done |-> FALSE, result |-> 0]

\* metrics_collector = MetricsCollector() where there is no metrics.json
MetricsCollectorInit ==
    /\ metrics_file = <<>>
    /\ metrics = LoadMetrics(metrics_file)
    /\ lock = None
    /\ callers = [t \in Callers |-> NotCalling]
    /\ reported = <<>>
    /\ sampled = NoSample

\* no request is being handled
NoThreads ==
    /\ indexers = EmptyDict
    /\ upload = EmptyDict

\* reset_metrics: the collector and metrics.json after it
reset_metrics ==
    /\ metrics' = NewMetrics
    /\ metrics_file' = <<>>

\* JobManager() in an installation that has no persisted file yet
Init ==
    /\ job_metadata = EmptyDict
    /\ job_results = EmptyDict
    /\ jobs = LoadExistingJobs(job_metadata, job_results)
    /\ clock = 0
    /\ last = Returned("__init__", None, FALSE, FALSE, 0)
    /\ calls = 0
    /\ deleting = Idle
    /\ SearchEngineInit
    /\ MetricsCollectorInit
    /\ NoThreads

\* time passes
Tick ==
    /\ clock < MaxTime
    /\ clock' = clock + 1
    /\ UNCHANGED <<jobs, job_metadata, job_results, last, calls, deleting, searchVars,
                   metricsVars, threadVars>>

create_job(job_id, total_files, metadata_options, data_source) ==
    /\ jobs' = Put(jobs, job_id,
                   NewJob(job_id, total_files, metadata_options, data_source, clock))
    /\ job_metadata' = SaveJobMetadata(jobs', job_metadata, job_id)
    /\ last' = Returned("create_job", job_id, FALSE, TRUE, 0)
    /\ calls' = calls + 1
    /\ UNCHANGED <<job_results, clock, deleting, searchVars,
                   metricsVars, threadVars>>

\* mutant: job = self.jobs.setdefault(job_id, {'total_files': 0}), no early return
update_job_progress_setdefault(job_id, current_file, processed, successful, failed) ==
    /\ jobs' = Put(jobs, job_id,
          Progressed(IF job_id \in DOMAIN jobs THEN jobs[job_id]
                     ELSE [total_files |-> 0],
                     current_file, processed, successful, failed))
    /\ job_metadata' = SaveJobMetadata(jobs', job_metadata, job_id)
    /\ last' = Returned("update_job_progress", job_id, FALSE,
                        job_id \in DOMAIN jobs, 0)
    /\ calls' = calls + 1
    /\ UNCHANGED <<job_results, clock, deleting, searchVars,
                   metricsVars, threadVars>>

update_job_progress(job_id, current_file, processed, successful, failed) ==
    /\ IF job_id \notin DOMAIN jobs
       THEN UNCHANGED <<jobs, job_metadata>>
       ELSE /\ jobs' = Put(jobs, job_id,
                  Progressed(jobs[job_id], current_file, processed, successful,
                             failed))
            /\ job_metadata' = SaveJobMetadata(jobs', job_metadata, job_id)
    /\ last' = Returned("update_job_progress", job_id, FALSE,
                        job_id \in DOMAIN jobs, 0)
    /\ calls' = calls + 1
    /\ UNCHANGED <<job_results, clock, deleting, searchVars,
                   metricsVars, threadVars>>

add_file_result(job_id, filename, o) ==
    /\ IF job_id \notin DOMAIN jobs
       THEN UNCHANGED <<jobs, job_metadata>>
       ELSE /\ jobs' = Put(jobs, job_id,
                  WithResult(jobs[job_id], filename, o, clock))
            /\ job_metadata' = SaveJobMetadata(jobs', job_metadata, job_id)
    /\ last' = Returned("add_file_result", job_id, o.success,
                        job_id \in DOMAIN jobs, 0)
    /\ calls' = calls + 1
    /\ UNCHANGED <<job_results, clock, deleting, searchVars,
                   metricsVars, threadVars>>

complete_job(job_id, success) ==
    /\ IF job_id \notin DOMAIN jobs
       THEN UNCHANGED <<jobs, job_metadata, job_results>>
       ELSE /\ jobs' = Put(jobs, job_id, Finished(jobs[job_id], success, clock))
            /\ job_results' = SaveJobResults(jobs', job_results, job_id)
            /\ job_metadata' = SaveJobMetadata(jobs', job_metadata, job_id)
    /\ last' = Returned("complete_job", job_id, success, job_id \in DOMAIN jobs, 0)
    /\ calls' = calls + 1
    /\ UNCHANGED <<clock, deleting, searchVars,
                   metricsVars, threadVars>>

get_job_status(job_id) ==
    /\ IF job_id \notin DOMAIN jobs
       THEN /\ UNCHANGED jobs
            /\ last' = Returned("get_job_status", job_id, FALSE, FALSE, 0)
       ELSE /\ jobs' = Put(jobs, job_id,
                  DictUpdate(jobs[job_id],
                     [processing_time |-> CalculateProcessingTime(jobs[job_id])]))
            /\ last' = Returned("get_job_status", job_id, FALSE, TRUE,
                                jobs'[job_id].processing_time)
    /\ calls' = calls + 1
    /\ UNCHANGED <<job_metadata, job_results, clock, deleting, searchVars,
                   metricsVars, threadVars>>

\* the ledger get_job_results leaves: the results log is read when the job
\* has no results in memory
ResultsLoaded(js, jr, job_id) ==
    IF job_id \notin DOMAIN js
    THEN js
    ELSE IF "results" \notin DOMAIN js[job_id] \/ Len(js[job_id].results) = 0
         THEN LoadJobResultsFromFile(js, jr, job_id)
         ELSE js

get_job_results(job_id) ==
    /\ jobs' = ResultsLoaded(jobs, job_results, job_id)
    /\ last' = Returned("get_job_results", job_id, FALSE,
                        job_id \in DOMAIN jobs, 0)
    /\ calls' = calls + 1
    /\ UNCHANGED <<job_metadata, job_results, clock, deleting, searchVars,
                   metricsVars, threadVars>>

\* app.py delete_job, up to the 404: job = job_manager.get_job_results(job_id)
delete_job(job_id) ==
    /\ deleting.pc = "idle"
    /\ jobs' = ResultsLoaded(jobs, job_results, job_id)
    /\ last' = Returned("get_job_results", job_id, FALSE,
                        job_id \in DOMAIN jobs, 0)
    /\ deleting' = IF job_id \in DOMAIN jobs
                   THEN [job_id |-> job_id, pc |-> "metadata"]
                   ELSE Idle
    /\ calls' = calls + 1
    /\ UNCHANGED <<job_metadata, job_results, clock, searchVars,
                   metricsVars, threadVars>>

\* app.py delete_job: os.remove(metadata_path)
delete_job_metadata ==
    /\ deleting.pc = "metadata"
    /\ job_metadata' = Remove(job_metadata, deleting.job_id)
    /\ deleting' = [deleting EXCEPT !.pc = "results"]
    /\ UNCHANGED <<jobs, job_results, clock, last, calls, searchVars,
                   metricsVars, threadVars>>

\* app.py delete_job: os.remove(results_path)
delete_job_results ==
    /\ deleting.pc = "results"
    /\ job_results' = Remove(job_results, deleting.job_id)
    /\ deleting' = [deleting EXCEPT !.pc = "entry"]
    /\ UNCHANGED <<jobs, job_metadata, clock, last, calls, searchVars,
                   metricsVars, threadVars>>

\* app.py delete_job: del job_manager.jobs[job_id], and reset_metrics() when
\* no job is left
delete_job_entry ==
    /\ deleting.pc = "entry"
    /\ jobs' = Remove(jobs, deleting.job_id)
    /\ deleting' = Idle
    /\ IF DOMAIN jobs' = {}
       THEN reset_metrics
       ELSE UNCHANGED <<metrics, metrics_file>>
    /\ UNCHANGED <<job_metadata, job_results, clock, last, calls, searchVars,
                   lock, callers, reported, sampled, threadVars>>

\* app.py clear_all_jobs, the first loop: os.remove of every metadata file
clear_all_jobs ==
    /\ deleting.pc = "idle"
    /\ job_metadata' = EmptyDict
    /\ deleting' = [job_id |-> None, pc |-> "clear_results"]
    /\ last' = Returned("clear_all_jobs", None, FALSE, FALSE, 0)
    /\ calls' = calls + 1
    /\ UNCHANGED <<jobs, job_results, clock, searchVars,
                   metricsVars, threadVars>>

\* app.py clear_all_jobs, the second loop: os.remove of every results log
clear_all_jobs_results ==
    /\ deleting.pc = "clear_results"
    /\ job_results' = EmptyDict
    /\ deleting' = [deleting EXCEPT !.pc = "clear_entries"]
    /\ UNCHANGED <<jobs, job_metadata, clock, last, calls, searchVars,
                   metricsVars, threadVars>>

\* app.py clear_all_jobs: job_manager.jobs.clear() and reset_metrics()
clear_all_jobs_entries ==
    /\ deleting.pc = "clear_entries"
    /\ jobs' = EmptyDict
    /\ deleting' = Idle
    /\ reset_metrics
    /\ UNCHANGED <<job_metadata, job_results, clock, last, calls, searchVars,
                   lock, callers, reported, sampled, threadVars>>

\* the process stops and is started again: job_manager = JobManager(),
\* search_engine = SearchEngine(), metrics_collector = MetricsCollector()
Restart ==
    /\ jobs' = LoadExistingJobs(job_metadata, job_results)
    /\ last' = Returned("__init__", None, FALSE, FALSE, 0)
    /\ deleting' = Idle
    /\ calls' = calls + 1
    /\ index' = EmptyDict
    /\ documents' = EmptyDict
    /\ document_count' = 0
    /\ searched' = NoSearch
    /\ metrics' = LoadMetrics(metrics_file)
    /\ lock' = None
    /\ callers' = [t \in Callers |-> NotCalling]
    /\ reported' = <<>>
    /\ UNCHANGED <<job_metadata, job_results, clock, metrics_file, sampled,
                   threadVars>>

\* the calls of the upload handlers and of the status routes, in any order
Next ==
    \/ Tick
    \/ /\ calls < MaxCalls
       /\ \E job_id \in JobIds, total_files \in TotalFilesInputs :
             create_job(job_id, total_files, <<"title", "author">>, "Local")
    \/ /\ calls < MaxCalls
       /\ \E job_id \in JobIds, current_file \in Filenames,
             processed \in ProcessedInputs, successful \in SuccessfulInputs,
             failed \in FailedInputs :
             update_job_progress(job_id, current_file, processed, successful, failed)
    \/ /\ calls < MaxCalls
       /\ \E job_id \in JobIds, filename \in Filenames, o \in FileOutcomes :
             add_file_result(job_id, filename, o)
    \/ /\ calls < MaxCalls
       /\ \E job_id \in JobIds, success \in BOOLEAN : complete_job(job_id, success)
    \/ /\ calls < MaxCalls
       /\ \E job_id \in JobIds : get_job_status(job_id)
    \/ /\ calls < MaxCalls
       /\ \E job_id \in JobIds : get_job_results(job_id)

Spec == Init /\ [][Next]_vars

----------------------------------------------------------------------------
(* The ledger across restarts and deletions *)

MetadataOptions == <<"title", "author">>

\* what an earlier process has left in the two directories for one job id:
\* nothing; the snapshot of a job it was still uploading; the snapshot and
\* the results log of a job it completed, with one result or with none; the
\* results log alone, the process having stopped inside delete_job
DiskKinds == {"none", "uploading", "completed", "completed_empty", "log_only"}

\* the job the earlier process held when it wrote the files
EarlierJob(job_id, kind) ==
    LET created == NewJob(job_id, 1, MetadataOptions, "Local", 0)
        one == CHOOSE o \in FileOutcomes : o.success
    IN CASE kind = "uploading" -> created
         [] kind = "completed_empty" -> Finished(created, TRUE, 0)
         [] OTHER -> Finished(WithResult(created, "a.pdf", one, 0), TRUE, 0)

\* the ledger of the earlier process
EarlierJobs(kinds, having) ==
    [j \in {i \in JobIds : kinds[i] \in having} |-> EarlierJob(j, kinds[j])]

\* the job_metadata directory it left
EarlierMetadata(kinds) ==
    LET js == EarlierJobs(kinds, {"uploading", "completed", "completed_empty"})
    IN [j \in DOMAIN js |-> SaveJobMetadata(js, EmptyDict, j)[j]]

\* the job_results directory it left
EarlierResults(kinds) ==
    LET js == EarlierJobs(kinds, {"completed", "completed_empty", "log_only"})
    IN [j \in DOMAIN js |-> SaveJobResults(js, EmptyDict, j)[j]]

\* JobManager() over the files of an earlier process
InitDisk ==
    \E kinds \in [JobIds -> DiskKinds] :
       /\ job_metadata = EarlierMetadata(kinds)
       /\ job_results = EarlierResults(kinds)
       /\ jobs = LoadExistingJobs(job_metadata, job_results)
       /\ clock = 0
       /\ last = Returned("__init__", None, FALSE, FALSE, 0)
       /\ calls = 0
       /\ deleting = Idle
       /\ SearchEngineInit
       /\ MetricsCollectorInit
       /\ NoThreads

\* the smaller inputs the calls take in this specification
DiskOutcomes == {o \in FileOutcomes : o.success \/ o.skip_reason = "page_limit"}

NextDisk ==
    \/ Tick
    \/ /\ calls < MaxDiskCalls
       /\ \E job_id \in JobIds : create_job(job_id, 1, MetadataOptions, "Local")
    \/ /\ calls < MaxDiskCalls
       /\ \E job_id \in JobIds : update_job_progress(job_id, "a.pdf", 1, 1, 0)
    \/ /\ calls < MaxDiskCalls
       /\ \E job_id \in JobIds, o \in DiskOutcomes :
             add_file_result(job_id, "a.pdf", o)
    \/ /\ calls < MaxDiskCalls
       /\ \E job_id \in JobIds, success \in BOOLEAN : complete_job(job_id, success)
    \/ /\ calls < MaxDiskCalls
       /\ \E job_id \in JobIds : get_job_status(job_id)
    \/ /\ calls < MaxDiskCalls
       /\ \E job_id \in JobIds : get_job_results(job_id)
    \/ /\ calls < MaxDiskCalls
       /\ \E job_id \in JobIds : delete_job(job_id)
    \/ delete_job_metadata
    \/ delete_job_results
    \/ delete_job_entry
    \/ /\ calls < MaxDiskCalls
       /\ clear_all_jobs
    \/ clear_all_jobs_results
    \/ clear_all_jobs_entries
    \/ /\ calls < MaxDiskCalls
       /\ Restart

SpecDisk == InitDisk /\ [][NextDisk]_vars

----------------------------------------------------------------------------
(* Start-up over files a write has left cut short *)

MaxStartupCalls == 2

\* what an earlier process has left for one job id: nothing; the snapshot
\* of an upload; snapshot and log of a completed job; the log alone; a snapshot
\* cut short, without and with a log; a log cut short inside its first line;
\* a log cut short inside the line of its result
StartupKinds == {"none", "uploading", "completed", "log_only", "metadata_cut",
                 "metadata_cut_log", "log_first_cut", "log_later_cut"}

\* the job_metadata directory it left
StartupMetadata(kinds) ==
    LET js == EarlierJobs(kinds, {"uploading", "completed", "metadata_cut",
                                  "metadata_cut_log"})
    IN [j \in DOMAIN js |->
          IF kinds[j] \in {"metadata_cut", "metadata_cut_log"}
          THEN Truncated
          ELSE SaveJobMetadata(js, EmptyDict, j)[j]]

\* the job_results directory it left
StartupResults(kinds) ==
    LET js == EarlierJobs(kinds, {"completed", "log_only", "metadata_cut_log",
                                  "log_first_cut", "log_later_cut"})
    IN [j \in DOMAIN js |->
          LET lines == SaveJobResults(js, EmptyDict, j)[j]
          IN CASE kinds[j] = "log_first_cut" -> <<Truncated>>
               [] kinds[j] = "log_later_cut" -> <<lines[1], Truncated>>
               [] OTHER -> lines]

\* JobManager() over these files
InitStartup ==
    \E kinds \in [JobIds -> StartupKinds] :
       /\ job_metadata = StartupMetadata(kinds)
       /\ job_results = StartupResults(kinds)
       /\ jobs = LoadExistingJobs(job_metadata, job_results)
       /\ clock = 0
       /\ last = Returned("__init__", None, FALSE, FALSE, 0)
       /\ calls = 0
       /\ deleting = Idle
       /\ SearchEngineInit
       /\ MetricsCollectorInit
       /\ NoThreads

\* the routes that go through a ledger entry with dict.get only, the
\* deletions, a new upload and the restart
NextStartup ==
    \/ Tick
    \/ /\ calls < MaxStartupCalls
       /\ \E job_id \in JobIds : create_job(job_id, 1, MetadataOptions, "Local")
    \/ /\ calls < MaxStartupCalls
       /\ \E job_id \in JobIds : get_job_status(job_id)
    \/ /\ calls < MaxStartupCalls
       /\ \E job_id \in JobIds : get_job_results(job_id)
    \/ /\ calls < MaxStartupCalls
       /\ \E job_id \in JobIds : delete_job(job_id)
    \/ delete_job_metadata
    \/ delete_job_results
    \/ delete_job_entry
    \/ /\ calls < MaxStartupCalls
       /\ clear_all_jobs
    \/ clear_all_jobs_results
    \/ clear_all_jobs_entries
    \/ /\ calls < MaxStartupCalls
       /\ Restart

SpecStartup == InitStartup /\ [][NextStartup]_vars

TypeOK ==
    /\ DOMAIN jobs \subseteq JobIds
    /\ DOMAIN job_metadata \subseteq JobIds
    /\ DOMAIN job_results \subseteq JobIds
    /\ clock \in 0..MaxTime
    /\ calls \in Nat
    /\ deleting.pc \in {"idle", "metadata", "results", "entry",
                       "clear_results", "clear_entries"}
    /\ document_count \in Nat
    /\ Cardinality(DOMAIN documents) = document_count
    /\ searched.limit \in Int

----------------------------------------------------------------------------
(* Properties of the job ledger *)

FinishedStatuses == {COMPLETED, FAILED}

\* the step is a call of op that returns
IsCall(op) == calls' = calls + 1 /\ last'.op = op

\* C1: in every reachable state of every job, successful_files +
\* failed_files + skipped_files <= total_files.
C1_CountersWithinTotal ==
    \A id \in DOMAIN jobs :
       jobs[id].successful_files + jobs[id].failed_files + jobs[id].skipped_files
          <= jobs[id].total_files

\* floor(processed / total * 100) clamped to [0, 100], and 0 when total = 0
ClampedFloor(processed, total) ==
    IF total = 0 THEN 0
    ELSE LET q == (processed * 100) \div total
         IN IF q < 0 THEN 0 ELSE IF q > 100 THEN 100 ELSE q

C3_StatusTerminal ==
    [][ ~IsCall("create_job") =>
          \A id \in (DOMAIN jobs) \cap (DOMAIN jobs') :
             \/ jobs'[id].status = jobs[id].status
             \/ /\ jobs[id].status = PROCESSING
                /\ jobs'[id].status \in FinishedStatuses ]_vars

\* C4: update_job_progress and add_file_result on a Completed or Failed job
\* leave the job as it was.
C4_FinishedJobFrozen ==
    [][ (/\ IsCall("update_job_progress") \/ IsCall("add_file_result")
         /\ last'.job_id \in DOMAIN jobs
         /\ jobs[last'.job_id].status \in FinishedStatuses)
        => jobs'[last'.job_id] = jobs[last'.job_id] ]_vars

\* C5: when complete_job returns for a known job, status is Completed if
\* success and Failed otherwise and end_time is set; get_job_status reports
\* processing_time = end_time - start_time >= 0, and 0 while end_time is unset.
C5_CompletionAndProcessingTime ==
    /\ (last.op = "complete_job" /\ last.found) =>
          /\ jobs[last.job_id].status = (IF last.success THEN COMPLETED ELSE FAILED)
          /\ jobs[last.job_id].end_time # None
    /\ (last.op = "get_job_status" /\ last.found) =>
          LET job == jobs[last.job_id]
          IN IF job.end_time = None
             THEN last.processing_time = 0
             ELSE /\ last.processing_time
                        = fromisoformat(job.end_time) - fromisoformat(job.start_time)
                  /\ last.processing_time >= 0

\* C5 witness: get_job_status reports a positive processing_time for a job
\* that complete_job has failed
C5_Witness ==
    /\ last.op = "get_job_status"
    /\ last.found
    /\ jobs[last.job_id].status = FAILED
    /\ last.processing_time > 0

\* C6: no update_job_progress call on a job that is not yet completed
\* leaves processed_files lower than it was.
C6_ProcessedNonDecreasing ==
    [][ (/\ IsCall("update_job_progress")
         /\ last'.job_id \in DOMAIN jobs
         /\ jobs[last'.job_id].status = PROCESSING)
        => jobs'[last'.job_id].processed_files
              >= jobs[last'.job_id].processed_files ]_vars

WriteCalls == {"update_job_progress", "add_file_result", "complete_job"}

ReadCalls == {"get_job_status", "get_job_results"}

\* C7: a call on an unknown job id returns, changes neither the ledger nor
\* any persisted file, and a read returns the not-found value.
C7_UnknownJobIgnored ==
    [][ (/\ calls' = calls + 1
         /\ last'.op \in WriteCalls \cup ReadCalls
         /\ last'.job_id \notin DOMAIN jobs)
        => /\ jobs' = jobs
           /\ job_metadata' = job_metadata
           /\ job_results' = job_results
           /\ ~last'.found ]_vars

\* C7 witness: a write on an unknown job id has returned while a file of
\* another job is on disk
C7_Witness ==
    /\ last.op \in WriteCalls
    /\ ~last.found
    /\ last.job_id \notin DOMAIN jobs
    /\ DOMAIN job_metadata # {}

MutatingCalls == {"create_job"} \cup WriteCalls

LogState(lines) ==
    DictUpdate(JsonLoad(lines[1]),
               [results |-> [i \in 1..(Len(lines) - 1) |-> JsonLoad(lines[i + 1])]])

\* the in-memory job carries every value of its metadata file
HoldsMetadataValues(js, id) ==
    \A k \in DOMAIN job_metadata[id] :
       k \in DOMAIN js[id] /\ js[id][k] = JsonLoad(job_metadata[id])[k]

\* C9: after startup a job id with a metadata file holds the state of that
\* file, a job id with a results log only holds the log's state, and
\* get_job_results never replaces the metadata file's values of a job that
\* has both files.
C9_MetadataWins ==
    [][ /\ IsCall("__init__") =>
              \A id \in (DOMAIN job_metadata) \cup (DOMAIN job_results) :
                 /\ id \in DOMAIN jobs'
                 /\ jobs'[id] = IF id \in DOMAIN job_metadata
                                THEN JsonLoad(job_metadata[id])
                                ELSE LogState(job_results[id])
        /\ IsCall("get_job_results") =>
              \A id \in (DOMAIN jobs) \cap (DOMAIN job_metadata)
                           \cap (DOMAIN job_results) :
                 HoldsMetadataValues(jobs, id) => HoldsMetadataValues(jobs', id)
      ]_vars

\* C10: create_job never returns an id that a job of the ledger holds.
C10_JobIdNeverReused ==
    [][ IsCall("create_job") => last'.job_id \notin DOMAIN jobs ]_vars

\* the three counters add_file_result chooses between
Counters(job) == <<job.successful_files, job.skipped_files, job.failed_files>>

\* C11: every add_file_result call on a known job appends exactly one
\* FileResult at the end of results and adds one to exactly one counter:
\* successful_files when success is true, skipped_files when success is false
\* and a skip_reason is given, failed_files when success is false and none is
\* given; the other two, total_files and processed_files stay as they were.
C11_OneResultOneCounter ==
    [][ (IsCall("add_file_result") /\ last'.found) =>
          LET old == jobs[last'.job_id]
              new == jobs'[last'.job_id]
              r == new.results[Len(new.results)]
              c == Counters(old)
          IN /\ Len(new.results) = Len(old.results) + 1
             /\ SubSeq(new.results, 1, Len(old.results)) = old.results
             /\ r.success = last'.success
             /\ Counters(new) =
                   IF r.success THEN <<c[1] + 1, c[2], c[3]>>
                   ELSE IF r.skip_reason # None THEN <<c[1], c[2] + 1, c[3]>>
                   ELSE <<c[1], c[2], c[3] + 1>>
             /\ new.total_files = old.total_files
             /\ "processed_files" \in DOMAIN old =>
                   new.processed_files = old.processed_files ]_vars

\* a skipped file has been added after a parsed one
C11_Witness ==
    /\ last.op = "add_file_result"
    /\ last.found
    /\ LET job == jobs[last.job_id]
       IN /\ Len(job.results) = 2
          /\ job.results[1].success
          /\ job.results[2].skip_reason # None
          /\ Counters(job) = <<1, 1, 0>>

\* the keys create_job declares in skipped_reasons
DeclaredReasons == {"unknown_format", "file_size_limit", "page_limit"}

RECURSIVE SumOver(_, _)
SumOver(f, keys) ==
    IF keys = {} THEN 0
    ELSE LET k == CHOOSE x \in keys : TRUE
         IN f[k] + SumOver(f, keys \ {k})

\* C12: skipped_reasons keeps exactly the three keys create_job declares and
\* its values sum to at most skipped_files in every state; a file skipped
\* for a reason outside the three is recorded on its FileResult and counted in
\* skipped_files while skipped_reasons stays as it was.
C12_HistogramKeepsDeclaredKeys ==
    /\ [](\A j \in DOMAIN jobs :
            /\ DOMAIN jobs[j].skipped_reasons = DeclaredReasons
            /\ SumOver(jobs[j].skipped_reasons, DeclaredReasons)
                  <= jobs[j].skipped_files)
    /\ [][ (IsCall("add_file_result") /\ last'.found) =>
             LET old == jobs[last'.job_id]
                 new == jobs'[last'.job_id]
                 r == new.results[Len(new.results)]
             IN (~r.success /\ r.skip_reason \notin DeclaredReasons \cup {None}) =>
                   /\ new.skipped_files = old.skipped_files + 1
                   /\ new.skipped_reasons = old.skipped_reasons ]_vars

\* a file skipped for a reason of the parser has been counted
C12_Witness ==
    /\ last.op = "add_file_result"
    /\ last.found
    /\ LET job == jobs[last.job_id]
       IN /\ job.results[Len(job.results)].skip_reason = "unsupported_type"
          /\ job.skipped_files = 1
          /\ SumOver(job.skipped_reasons, DeclaredReasons) = 0

DeletionCompletes ==
    /\ deleting.pc \in {"entry", "clear_entries"}
    /\ deleting'.pc = "idle"
    /\ calls' = calls

\* C14: when a deletion completes, the metadata file, the results log and
\* the in-memory entry of the deleted job are gone, so get_job_status and
\* list_jobs no longer find it and a restart does not reconstruct it.
C14_DeletedJobIsGone ==
    [][ DeletionCompletes =>
          \A id \in (IF deleting.pc = "entry" THEN {deleting.job_id} ELSE JobIds) :
             /\ id \notin DOMAIN jobs'
             /\ id \notin DOMAIN job_metadata'
             /\ id \notin DOMAIN job_results'
             /\ id \notin DOMAIN LoadExistingJobs(job_metadata', job_results') ]_vars


\* every line of the file parses
WellFormed(lines) == Len(lines) > 0 /\ \A i \in DOMAIN lines : Decodes(lines[i])

\* C15: start-up ignores a malformed file as a whole and loads the others: a
\* job id is in the ledger exactly when its metadata file parses or, without
\* such a file, every line of its results log parses, and then it holds the
\* state of that file; a file that does not parse, in its first or in a later
\* line, gives no entry and no field.
C15_MalformedFileIgnored ==
    last.op = "__init__" =>
       \A id \in JobIds :
          IF id \in DOMAIN job_metadata /\ Decodes(job_metadata[id])
          THEN id \in DOMAIN jobs /\ jobs[id] = JsonLoad(job_metadata[id])
          ELSE IF id \in DOMAIN job_results /\ WellFormed(job_results[id])
          THEN id \in DOMAIN jobs /\ jobs[id] = LogState(job_results[id])
          ELSE id \notin DOMAIN jobs

----------------------------------------------------------------------------
(* SearchEngine: text *)

MaxDocs == 2

\* len(terms) from which a posting earns no bonus
BonusPositions == 100

\* snippet_length
SnippetLength == 200

\* the character of a str at a 1-based place
Char(s, i) == SubSeq(s, i, i)

UpperCase == "ABCDEFGHIJKLMNOPQRSTUVWXYZ"
LowerCase == "abcdefghijklmnopqrstuvwxyz"
Digits == "0123456789"

Chars(s) == {Char(s, i) : i \in 1..Len(s)}

UpperChars == Chars(UpperCase)

\* the lower-case letter of every capital
LowerOf ==
    [c \in UpperChars |->
        Char(LowerCase, CHOOSE i \in 1..Len(UpperCase) : Char(UpperCase, i) = c)]

\* str.lower() of one character
LowerChar(c) == IF c \in UpperChars THEN LowerOf[c] ELSE c

RECURSIVE LowerBetween(_, _, _)
\* str.lower() of the places lo..hi, by halves
LowerBetween(s, lo, hi) ==
    IF lo > hi THEN ""
    ELSE IF lo = hi THEN LowerChar(Char(s, lo))
    ELSE LET mid == (lo + hi) \div 2
         IN LowerBetween(s, lo, mid) \o LowerBetween(s, mid + 1, hi)

\* str.lower()
lower(s) == LowerBetween(s, 1, Len(s))

\* \w and \s of the regular expression in _tokenize
WordChars == Chars(LowerCase) \cup UpperChars \cup Chars(Digits) \cup {"_"}
SpaceChars == {" ", "\t", "\n"}

RECURSIVE BlankedBetween(_, _, _)
\* re.sub(r'[^\w\s]', ' ', s) of the places lo..hi, by halves
BlankedBetween(s, lo, hi) ==
    IF lo > hi THEN ""
    ELSE IF lo = hi
         THEN LET c == Char(s, lo)
              IN IF c \in WordChars \/ c \in SpaceChars THEN c ELSE " "
    ELSE LET mid == (lo + hi) \div 2
         IN BlankedBetween(s, lo, mid) \o BlankedBetween(s, mid + 1, hi)

RECURSIVE Ascending(_, _, _)
\* the members of a set of places between lo and hi, in rising order
Ascending(S, lo, hi) ==
    IF lo > hi THEN <<>>
    ELSE IF lo = hi THEN (IF lo \in S THEN <<lo>> ELSE <<>>)
    ELSE LET mid == (lo + hi) \div 2
         IN Ascending(S, lo, mid) \o Ascending(S, mid + 1, hi)

\* str.split(): the maximal runs without whitespace, in their order
Split(s) ==
    LET inWord == {i \in 1..Len(s) : Char(s, i) \notin SpaceChars}
        starts == Ascending({i \in inWord : i - 1 \notin inWord}, 1, Len(s))
        ends == Ascending({i \in inWord : i + 1 \notin inWord}, 1, Len(s))
    IN [n \in 1..Len(starts) |-> SubSeq(s, starts[n], ends[n])]

\* _tokenize
tokenize(text) ==
    LET lowered == lower(text)
    IN Split(BlankedBetween(lowered, 1, Len(lowered)))

RECURSIVE Join(_)
\* ' '.join(searchable_parts)
Join(parts) ==
    IF Len(parts) = 0 THEN ""
    ELSE IF Len(parts) = 1 THEN parts[1]
    ELSE parts[1] \o " " \o Join(Tail(parts))

\* dict.get(key, default)
Get(d, key, default) == IF key \in DOMAIN d THEN d[key] ELSE default

\* the parts _create_searchable_text collects: title, authors (a list of
\* strings), topic, abstract (of the dict itself, else of its metadata dict),
\* published date
SearchableParts(d) ==
    LET title == Get(d, "title", "")
        author == Get(d, "author", <<>>)
        topic == Get(d, "topic", "")
        direct == Get(d, "abstract", "")
        abstract == IF direct = "" /\ "metadata" \in DOMAIN d
                    THEN Get(d.metadata, "abstract", "")
                    ELSE direct
        published_date == Get(d, "published_date", "")
        Found(v) == IF v # "" /\ v # "Not found" THEN <<v>> ELSE <<>>
    IN (IF title # "" THEN <<title>> ELSE <<>>)
       \o SelectSeq(author, LAMBDA a : a # "" /\ a # "Not found")
       \o Found(topic) \o Found(abstract) \o Found(published_date)

\* _create_searchable_text
create_searchable_text(document_content) == Join(SearchableParts(document_content))

\* _create_searchable_text_from_doc
create_searchable_text_from_doc(doc_info) == Join(SearchableParts(doc_info))

Min(S) == CHOOSE x \in S : \A y \in S : x <= y

\* str.find(sub): the lowest 0-based place of sub in s, -1 without one
Find(s, sub) ==
    LET places == {i \in 0..(Len(s) - Len(sub)) : SubSeq(s, i + 1, i + Len(sub)) = sub}
    IN IF places = {} THEN -1 ELSE Min(places)

\* s[start:end] for 0 <= start
Slice(s, start, end) == SubSeq(s, start + 1, IF end < Len(s) THEN end ELSE Len(s))

\* mutant: end = min(len(text), best_position + snippet_length)
extract_snippet_from_match(text, query_terms, snippet_length) ==
    LET text_lower == lower(text)
        places == {Find(text_lower, query_terms[i]) : i \in 1..Len(query_terms)} \ {-1}
        best_position == IF places = {} THEN -1 ELSE Min(places)
        from == best_position - snippet_length \div 2
        start == IF from > 0 THEN from ELSE 0
        end == IF best_position + snippet_length < Len(text)
               THEN best_position + snippet_length ELSE Len(text)
    IN IF best_position = -1
       THEN IF Len(text) > snippet_length
            THEN Slice(text, 0, snippet_length) \o "..."
            ELSE text
       ELSE (IF start > 0 THEN "..." ELSE "")
            \o Slice(text, start, end)
            \o (IF end < Len(text) THEN "..." ELSE "")

\* _extract_snippet
extract_snippet(text, query_terms, snippet_length) ==
    LET text_lower == lower(text)
        places == {Find(text_lower, query_terms[i]) : i \in 1..Len(query_terms)} \ {-1}
        best_position == IF places = {} THEN -1 ELSE Min(places)
        from == best_position - snippet_length \div 2
        start == IF from > 0 THEN from ELSE 0
        end == IF start + snippet_length < Len(text)
               THEN start + snippet_length ELSE Len(text)
    IN IF best_position = -1
       THEN IF Len(text) > snippet_length
            THEN Slice(text, 0, snippet_length) \o "..."
            ELSE text
       ELSE (IF start > 0 THEN "..." ELSE "")
            \o Slice(text, start, end)
            \o (IF end < Len(text) THEN "..." ELSE "")

----------------------------------------------------------------------------
(* SearchEngine: the index *)

RECURSIVE Repeated(_, _)
\* s * n
Repeated(s, n) ==
    IF n = 0 THEN ""
    ELSE IF n = 1 THEN s
    ELSE Repeated(s, n \div 2) \o Repeated(s, n - n \div 2)

\* the parsed contents handed to index_document: a title alone; every field,
\* with punctuation, capitals and 'Not found' entries; an abstract whose 101st
\* and 102nd terms are the ones searched for, under no title; a title longer
\* than a snippet with the abstract in the metadata dict
Contents ==
    { [title |-> "Flask Guide"],
      [title |-> "Web Guide", author |-> <<"Ann Lee", "Not found">>,
       topic |-> "Not found", abstract |-> "Flask, flask & FLASK!",
       published_date |-> "2024", file_type |-> "application/pdf"],
      [abstract |-> Repeated("a ", BonusPositions) \o "flask guide "
                    \o Repeated("b ", 60)],
      [title |-> Repeated("lorem ", 40), metadata |-> [abstract |-> "flask"]] }

Queries == {"flask guide", "FLASK", "guide guide", "lorem", "zebra", "?!", ""}

Limits == {-1, 0, 1, 10}

\* f"doc_{self.document_count}"
DocId(n) == "doc_" \o ToString(n)

\* the entry of self.documents
StoredDocument(document_content, filename) ==
    [filename |-> filename,
     title |-> Get(document_content, "title", "Untitled"),
     file_type |-> Get(document_content, "file_type", "Unknown"),
     upload_date |-> Get(document_content, "upload_date", ""),
     author |-> Get(document_content, "author", <<>>),
     topic |-> Get(document_content, "topic", ""),
     abstract |-> Get(document_content, "abstract", ""),
     published_date |-> Get(document_content, "published_date", "")]

\* the loop over enumerate(terms): self.index[term].append((doc_id, position))
Posted(idx, terms, doc_id) ==
    LET new == {terms[i] : i \in 1..Len(terms)}
        places == [i \in 1..Len(terms) |-> i]
    IN [t \in (DOMAIN idx) \cup new |->
          (IF t \in DOMAIN idx THEN idx[t] ELSE <<>>)
          \o (LET at == SelectSeq(places, LAMBDA i : terms[i] = t)
              IN [k \in 1..Len(at) |-> <<doc_id, at[k] - 1>>])]

\* mutant: self.document_count is not incremented
index_document_same_count(document_content, filename) ==
    LET doc_id == DocId(document_count)
        searchable_text == create_searchable_text(document_content)
    IN /\ document_count' = document_count
       /\ documents' = Put(documents, doc_id,
                           StoredDocument(document_content, filename))
       /\ index' = IF searchable_text # ""
                   THEN Posted(index, tokenize(searchable_text), doc_id)
                   ELSE index
       /\ UNCHANGED <<jobs, job_metadata, job_results, clock, last, calls,
                      deleting, searched,
                      metricsVars, threadVars>>

index_document(document_content, filename) ==
    LET doc_id == DocId(document_count)
        searchable_text == create_searchable_text(document_content)
    IN /\ document_count' = document_count + 1
       /\ documents' = Put(documents, doc_id,
                           StoredDocument(document_content, filename))
       /\ index' = IF searchable_text # ""
                   THEN Posted(index, tokenize(searchable_text), doc_id)
                   ELSE index
       /\ UNCHANGED <<jobs, job_metadata, job_results, clock, last, calls,
                      deleting, searched,
                      metricsVars, threadVars>>

RECURSIVE Flattened(_)
\* the postings the two loops of search() go through, in their order
Flattened(lists) ==
    IF Len(lists) = 0 THEN <<>>
    ELSE IF Len(lists) = 1 THEN lists[1]
    ELSE LET half == Len(lists) \div 2
         IN Flattened(SubSeq(lists, 1, half))
            \o Flattened(SubSeq(lists, half + 1, Len(lists)))

\* mutant: "if position <= 100"
DocScoresBonusAtHundred(idx, query_terms) ==
    LET postings == Flattened([i \in 1..Len(query_terms) |->
                                 IF query_terms[i] \in DOMAIN idx
                                 THEN idx[query_terms[i]] ELSE <<>>])
        first == {i \in 1..Len(postings) :
                    \A j \in 1..(i - 1) : postings[j][1] # postings[i][1]}
        firsts == Ascending(first, 1, Len(postings))
        keys == [n \in 1..Len(firsts) |-> postings[firsts[n]][1]]
        hits(d) == {i \in 1..Len(postings) : postings[i][1] = d}
        early(d) == {i \in hits(d) : postings[i][2] <= BonusPositions}
    IN [keys |-> keys,
        score |-> [d \in {keys[n] : n \in 1..Len(keys)} |->
                     2 * Cardinality(hits(d)) + Cardinality(early(d))]]

\* doc_scores after the loops, as its keys in the order of their insertion
\* and the score of each key; a score is counted in halves: 1.0 is 2 and the
\* bonus 0.5 is 1
DocScores(idx, query_terms) ==
    LET postings == Flattened([i \in 1..Len(query_terms) |->
                                 IF query_terms[i] \in DOMAIN idx
                                 THEN idx[query_terms[i]] ELSE <<>>])
        first == {i \in 1..Len(postings) :
                    \A j \in 1..(i - 1) : postings[j][1] # postings[i][1]}
        firsts == Ascending(first, 1, Len(postings))
        keys == [n \in 1..Len(firsts) |-> postings[firsts[n]][1]]
        hits(d) == {i \in 1..Len(postings) : postings[i][1] = d}
        early(d) == {i \in hits(d) : postings[i][2] < BonusPositions}
    IN [keys |-> keys,
        score |-> [d \in {keys[n] : n \in 1..Len(keys)} |->
                     2 * Cardinality(hits(d)) + Cardinality(early(d))]]

\* mutant: sorted(doc_scores.items(), key=lambda x: x[1]), reverse left out
SortedDocsRising(doc_scores) ==
    LET keys == doc_scores.keys
        Before(i, j) ==
            \/ doc_scores.score[keys[i]] < doc_scores.score[keys[j]]
            \/ doc_scores.score[keys[i]] = doc_scores.score[keys[j]] /\ i < j
        Place(n) == CHOOSE i \in 1..Len(keys) :
                       Cardinality({j \in 1..Len(keys) : Before(j, i)}) = n - 1
    IN [n \in 1..Len(keys) |-> keys[Place(n)]]

\* sorted(doc_scores.items(), key=lambda x: x[1], reverse=True): the keys by
\* falling score, keys of one score in the order of their insertion
SortedDocs(doc_scores) ==
    LET keys == doc_scores.keys
        Before(i, j) ==
            \/ doc_scores.score[keys[i]] > doc_scores.score[keys[j]]
            \/ doc_scores.score[keys[i]] = doc_scores.score[keys[j]] /\ i < j
        Place(n) == CHOOSE i \in 1..Len(keys) :
                       Cardinality({j \in 1..Len(keys) : Before(j, i)}) = n - 1
    IN [n \in 1..Len(keys) |-> keys[Place(n)]]

\* seq[:limit]
UpTo(seq, limit) ==
    IF limit >= 0
    THEN SubSeq(seq, 1, IF limit < Len(seq) THEN limit ELSE Len(seq))
    ELSE SubSeq(seq, 1, Len(seq) + limit)

\* what search(query, limit) returns
SearchResults(idx, docs, query, limit) ==
    LET query_terms == tokenize(lower(query))
        doc_scores == DocScores(idx, query_terms)
        sorted_docs == UpTo(SortedDocs(doc_scores), limit)
    IN IF Len(query_terms) = 0
       THEN <<>>
       ELSE [n \in 1..Len(sorted_docs) |->
               LET doc_id == sorted_docs[n]
                   doc_info == DictUpdate(docs[doc_id],
                                  [score |-> doc_scores.score[doc_id],
                                   doc_id |-> doc_id])
                   searchable_text == create_searchable_text_from_doc(doc_info)
               IN DictUpdate(doc_info,
                     [snippet |-> extract_snippet(searchable_text, query_terms,
                                                  SnippetLength)])]

\* mutant: "if self.index[term]:", the lookup that makes the defaultdict grow
search_by_subscript(query, limit) ==
    /\ searched' = [query |-> query, limit |-> limit,
                    results |-> SearchResults(index, documents, query, limit)]
    /\ index' = LET query_terms == tokenize(lower(query))
                IN [t \in (DOMAIN index) \cup {query_terms[i] : i \in 1..Len(query_terms)} |->
                      IF t \in DOMAIN index THEN index[t] ELSE <<>>]
    /\ UNCHANGED <<jobs, job_metadata, job_results, clock, last, calls,
                   deleting, documents, document_count,
                      metricsVars, threadVars>>

search(query, limit) ==
    /\ searched' = [query |-> query, limit |-> limit,
                    results |-> SearchResults(index, documents, query, limit)]
    /\ UNCHANGED <<jobs, job_metadata, job_results, clock, last, calls,
                   deleting, index, documents, document_count,
                      metricsVars, threadVars>>

\* uploads and searches, in any order
NextSearch ==
    \/ /\ document_count < MaxDocs
       /\ \E document_content \in Contents, filename \in Filenames :
             index_document(document_content, filename)
    \/ \E query \in Queries, limit \in Limits : search(query, limit)

SpecSearch == Init /\ [][NextSearch]_vars

----------------------------------------------------------------------------
(* Properties of the search index *)

\* the step is a search() call that returns
Searches == searched' # searched

\* the terms of the query of the call
QueryTerms(call) == tokenize(lower(call.query))

\* the postings of a document under the terms of a query: the pairs of a
\* place in the query and a place in the posting list of the term there
Hits(idx, query_terms, d) ==
    {h \in UNION {{<<i, k>> : k \in 1..Len(idx[query_terms[i]])} :
                     i \in {j \in 1..Len(query_terms) : query_terms[j] \in DOMAIN idx}} :
        idx[query_terms[h[1]]][h[2]][1] = d}

\* 1.0 for every such posting and 0.5 more for a position below 100, in halves
PostingScore(idx, query_terms, d) ==
    LET hits == Hits(idx, query_terms, d)
    IN 2 * Cardinality(hits)
       + Cardinality({h \in hits : idx[query_terms[h[1]]][h[2]][2] < 100})

\* the ids of the documents a call returned
Returned_ids(call) == {call.results[n].doc_id : n \in 1..Len(call.results)}

\* C16: the score search() reports for a document is the sum, over the query
\* tokens in the index and the postings of each for this document, of 1.0 plus
\* 0.5 for a position below 100; a document whose title holds every query term
\* is returned, when limit leaves room, with a score of at least one per
\* query term.
C16_ScoreIsPostingSum ==
    [][ Searches =>
          LET call == searched'
              terms == QueryTerms(call)
          IN /\ \A n \in 1..Len(call.results) :
                   call.results[n].score =
                      PostingScore(index, terms, call.results[n].doc_id)
             /\ \A d \in DOMAIN documents :
                   LET title == tokenize(documents[d].title)
                   IN \/ \E n \in 1..Len(call.results) :
                            /\ call.results[n].doc_id = d
                            /\ call.results[n].score >= 2 * Len(terms)
                      \/ ~ /\ Len(terms) > 0
                           /\ Len(call.results) < call.limit
                           /\ \A i \in 1..Len(terms) :
                                 \E k \in 1..Len(title) : title[k] = terms[i] ]_vars

\* "flask guide" has found the document titled "Flask Guide" with score 3.0
\* and a document that holds both terms from position 100 on with score 2.0
C16_Witness ==
    /\ searched.query = "flask guide"
    /\ Len(searched.results) = 2
    /\ searched.results[1].title = "Flask Guide"
    /\ searched.results[1].score = 6
    /\ searched.results[2].score = 4

\* C17: for a limit of 0 or more search() returns at most limit documents,
\* each with a score above 0, in an order of never rising score, and no
\* document it leaves out has a higher score than one it returns.
C17_BestFirstWithinLimit ==
    [][ (Searches /\ searched'.limit >= 0) =>
          LET call == searched'
              terms == QueryTerms(call)
          IN /\ Len(call.results) <= call.limit
             /\ \A n \in 1..Len(call.results) : call.results[n].score > 0
             /\ \A n \in 1..(Len(call.results) - 1) :
                   call.results[n].score >= call.results[n + 1].score
             /\ \A d \in (DOMAIN documents) \ Returned_ids(call) :
                   \A n \in 1..Len(call.results) :
                      PostingScore(index, terms, d) <= call.results[n].score ]_vars

\* a search with limit 1 has returned the better of two matching documents
C17_Witness ==
    /\ searched.limit = 1
    /\ Len(searched.results) = 1
    /\ \E d \in (DOMAIN documents) \ Returned_ids(searched) :
          /\ PostingScore(index, QueryTerms(searched), d) > 0
          /\ PostingScore(index, QueryTerms(searched), d) < searched.results[1].score

\* C18: a search whose query is empty, tokenizes to nothing or has no token
\* in the index returns the empty list and leaves the index and the document
\* table as they were.
C18_UnmatchedQueryIsEmpty ==
    [][ ( /\ Searches
          /\ \A i \in 1..Len(QueryTerms(searched')) :
                QueryTerms(searched')[i] \notin DOMAIN index ) =>
          /\ searched'.results = <<>>
          /\ index' = index
          /\ documents' = documents
          /\ document_count' = document_count ]_vars

\* a query none of whose tokens is indexed has been answered over an index
\* that holds terms
C18_Witness ==
    /\ searched.query = "zebra"
    /\ searched.results = <<>>
    /\ DOMAIN index # {}
    /\ "zebra" \notin DOMAIN index

\* C19: a snippet is at most 206 characters long, with and without a match.
C19_SnippetAtMost206 ==
    \A n \in 1..Len(searched.results) : Len(searched.results[n].snippet) <= 206

\* one search has given a snippet of 206 characters around a match and one
\* of 203 characters for a text that holds no term of the query
C19_Witness ==
    /\ \E n \in 1..Len(searched.results) :
          /\ Len(searched.results[n].snippet) = 206
          /\ Find(lower(searched.results[n].snippet), "flask") # -1
    /\ \E n \in 1..Len(searched.results) :
          /\ Len(searched.results[n].snippet) = 203
          /\ \A i \in 1..Len(QueryTerms(searched)) :
                Find(lower(searched.results[n].snippet), QueryTerms(searched)[i]) = -1

\* the step is an index_document call
Indexes == <<index, documents, document_count>>' # <<index, documents, document_count>>

\* the number in a document id
DocNumber(id) == CHOOSE n \in 0..MaxDocs : DocId(n) = id

\* C20: every index_document call stores its document under a new id greater
\* than every id assigned before and changes no document stored before and no
\* posting of one, also when the filename has been indexed before.
C20_IdsIncreaseNothingOverwritten ==
    [][ Indexes =>
          \E id \in DOMAIN documents' :
             /\ id \notin DOMAIN documents
             /\ DOMAIN documents' = (DOMAIN documents) \cup {id}
             /\ \A e \in DOMAIN documents :
                   /\ DocNumber(id) > DocNumber(e)
                   /\ documents'[e] = documents[e]
             /\ \A t \in DOMAIN index :
                   /\ t \in DOMAIN index'
                   /\ SelectSeq(index'[t], LAMBDA p : p[1] # id) = index[t]
             /\ \A t \in (DOMAIN index') \ (DOMAIN index) :
                   \A k \in 1..Len(index'[t]) : index'[t][k][1] = id ]_vars

\* the same filename has been indexed twice, under two ids
C20_Witness ==
    /\ document_count = 2
    /\ DOMAIN documents = {DocId(0), DocId(1)}
    /\ documents[DocId(0)].filename = documents[DocId(1)].filename
    /\ documents[DocId(0)].title # documents[DocId(1)].title

----------------------------------------------------------------------------
(* MetricsCollector: the calls, one thread at a time inside the lock *)

MaxMetricsCalls == 3

\* total_files: len(files) of an upload
MetricsTotalFiles == {MaxFiles}

\* (successful, failed, skipped) as the upload handlers count them
ProgressCounts == {<<MaxFiles - 1, 0, 1>>}

\* (processing_time in seconds, success, parser_type) of one document
DocumentOutcomes == {<<1, TRUE, "local">>, <<3, FALSE, "llm">>}

\* the other variables of a step of the collector
NotMetrics == <<jobs, job_metadata, job_results, last, deleting, searchVars,
                sampled, threadVars>>

\* thread t goes on to pc
At(t, pc) == [callers EXCEPT ![t].pc = pc]

\* a thread enters a public method of the collector
metrics_call(t, op, args) ==
    /\ callers[t].pc = "idle"
    /\ callers' = [callers EXCEPT ![t] = [pc |-> "lock", op |-> op,
                                           args |-> args, wrote |-> None,
                                           read |-> <<>>]]
    /\ calls' = calls + 1
    /\ UNCHANGED <<metrics, metrics_file, lock, reported, clock, NotMetrics>>

\* mutant: the with statement is entered whoever holds the lock
lock_acquire_unguarded(t) ==
    /\ callers[t].pc = "lock"
    /\ lock' = t
    /\ callers' = At(t, "body")
    /\ UNCHANGED <<metrics, metrics_file, reported, clock, calls, NotMetrics>>

\* with self.lock: the thread waits until the lock is free and takes it
lock_acquire(t) ==
    /\ callers[t].pc = "lock"
    /\ lock = None
    /\ lock' = t
    /\ callers' = At(t, "body")
    /\ UNCHANGED <<metrics, metrics_file, reported, clock, calls, NotMetrics>>

\* the end of the with block: the lock is released and the call returns
lock_release(t) ==
    /\ callers[t].pc = "unlock"
    /\ lock' = None
    /\ callers' = [callers EXCEPT ![t] = NotCalling]
    /\ UNCHANGED <<metrics, metrics_file, reported, clock, calls, NotMetrics>>

\* thread t is at pc of op, inside the with block
Inside(t, op, pc) ==
    /\ callers[t].op = op
    /\ callers[t].pc = pc

\* start_job: self.jobs[job_id] = JobMetrics(...)
start_job(t) ==
    /\ Inside(t, "start_job", "body")
    /\ metrics' = StartedJob(metrics, callers[t].args.job_id,
                             callers[t].args.total_files, clock)
    /\ callers' = At(t, "save")
    /\ UNCHANGED <<metrics_file, lock, reported, clock, calls, NotMetrics>>

\* update_job_progress of the collector: the three counters of a known job
metrics_update_job_progress(t) ==
    /\ Inside(t, "update_job_progress", "body")
    /\ LET a == callers[t].args
       IN IF a.job_id \in DOMAIN metrics.jobs
          THEN /\ metrics' = ProgressedJob(metrics, a.job_id, a.counts[1],
                                           a.counts[2], a.counts[3])
               /\ callers' = At(t, "save")
          ELSE /\ UNCHANGED metrics
               /\ callers' = At(t, "unlock")
    /\ UNCHANGED <<metrics_file, lock, reported, clock, calls, NotMetrics>>

\* complete_job of the collector, up to del self.jobs[job_id]
metrics_complete_job(t) ==
    /\ Inside(t, "complete_job", "body")
    /\ LET a == callers[t].args
       IN IF a.job_id \in DOMAIN metrics.jobs
          THEN /\ metrics' = MovedJob(metrics, a.job_id, a.success, clock)
               /\ callers' = At(t, "fold")
          ELSE /\ UNCHANGED metrics
               /\ callers' = At(t, "unlock")
    /\ UNCHANGED <<metrics_file, lock, reported, clock, calls, NotMetrics>>

\* complete_job of the collector, from self.job_latencies.append on: job is
\* the object just appended
metrics_complete_job_fold(t) ==
    /\ Inside(t, "complete_job", "fold")
    /\ metrics' = FoldedJob(metrics,
                            metrics.completed_jobs[Len(metrics.completed_jobs)])
    /\ callers' = At(t, "save")
    /\ UNCHANGED <<metrics_file, lock, reported, clock, calls, NotMetrics>>

\* record_document_processing: the latency sample, and the reads of += 1
record_document_processing(t) ==
    /\ Inside(t, "record_document_processing", "body")
    /\ LET a == callers[t].args
       IN /\ metrics' = SampledDocument(metrics, a.processing_time)
          /\ callers' = [callers EXCEPT
                ![t].pc = "count",
                ![t].read = ReadCounters(metrics, a.success, a.parser_type)]
    /\ UNCHANGED <<metrics_file, lock, reported, clock, calls, NotMetrics>>

\* record_document_processing: the writes of += 1
record_document_processing_count(t) ==
    /\ Inside(t, "record_document_processing", "count")
    /\ LET a == callers[t].args
       IN metrics' = CountedDocument(metrics, a.success, a.parser_type,
                                     callers[t].read)
    /\ callers' = At(t, "save")
    /\ UNCHANGED <<metrics_file, lock, reported, clock, calls, NotMetrics>>

\* mutant: no try/except, and the exception of a failed write leaves the
\* method with the lock still held
save_metrics_raising(t, outcome) ==
    /\ callers[t].pc = "save"
    /\ metrics_file' = SaveMetrics(metrics_file, metrics, clock, outcome)
    /\ callers' = IF outcome = "written"
                  THEN [callers EXCEPT ![t].pc = "unlock", ![t].wrote = outcome]
                  ELSE [callers EXCEPT ![t] = NotCalling]
    /\ UNCHANGED <<metrics, lock, reported, clock, calls, NotMetrics>>

\* self._save_metrics() at the end of a mutating call
save_metrics(t, outcome) ==
    /\ callers[t].pc = "save"
    /\ metrics_file' = SaveMetrics(metrics_file, metrics, clock, outcome)
    /\ callers' = [callers EXCEPT ![t].pc = "unlock", ![t].wrote = outcome]
    /\ UNCHANGED <<metrics, lock, reported, clock, calls, NotMetrics>>

\* get_metrics_summary
get_metrics_summary(t) ==
    /\ Inside(t, "get_metrics_summary", "body")
    /\ reported' = <<MetricsSummary(metrics)>>
    /\ callers' = At(t, "unlock")
    /\ UNCHANGED <<metrics, metrics_file, lock, clock, calls, NotMetrics>>

\* reset_metrics called by a request thread
metrics_reset_metrics(t) ==
    /\ Inside(t, "reset_metrics", "body")
    /\ reset_metrics
    /\ callers' = At(t, "unlock")
    /\ UNCHANGED <<lock, reported, clock, calls, NotMetrics>>

\* the calls the request threads of app.py make, in any order
MetricsCalls(t) ==
    \/ \E job_id \in JobIds, total_files \in MetricsTotalFiles :
          metrics_call(t, "start_job",
                       [job_id |-> job_id, total_files |-> total_files])
    \/ \E job_id \in JobIds, counts \in ProgressCounts :
          metrics_call(t, "update_job_progress",
                       [job_id |-> job_id, counts |-> counts])
    \/ \E job_id \in JobIds, success \in BOOLEAN :
          metrics_call(t, "complete_job",
                       [job_id |-> job_id, success |-> success])
    \/ \E o \in DocumentOutcomes :
          metrics_call(t, "record_document_processing",
                       [processing_time |-> o[1], success |-> o[2],
                        parser_type |-> o[3]])
    \/ metrics_call(t, "get_metrics_summary", EmptyDict)
    \/ metrics_call(t, "reset_metrics", EmptyDict)

\* the steps of a thread inside a call
MetricsSteps(t) ==
    \/ lock_acquire(t)
    \/ start_job(t)
    \/ metrics_update_job_progress(t)
    \/ metrics_complete_job(t)
    \/ metrics_complete_job_fold(t)
    \/ record_document_processing(t)
    \/ record_document_processing_count(t)
    \/ \E outcome \in WriteOutcomes : save_metrics(t, outcome)
    \/ get_metrics_summary(t)
    \/ metrics_reset_metrics(t)
    \/ lock_release(t)

NextMetrics ==
    \/ Tick
    \/ \E t \in Callers :
          \/ /\ calls < MaxMetricsCalls
             /\ MetricsCalls(t)
          \/ MetricsSteps(t)
    \/ /\ calls < MaxMetricsCalls
       /\ Restart

\* the collector of an earlier run after start_job, update_job_progress and
\* complete_job of one job
EarlierMetrics ==
    LET id == "e5f6a7b8"
        counts == CHOOSE c \in ProgressCounts : TRUE
        started == StartedJob(NewMetrics, id, MaxFiles, 0)
        progressed == ProgressedJob(started, id, counts[1], counts[2], counts[3])
        moved == MovedJob(progressed, id, TRUE, 0)
    IN FoldedJob(moved, moved.completed_jobs[1])

\* metrics.json at start-up: absent, the snapshot of an earlier run, or a
\* text a failed write of an earlier run has cut short
MetricsFiles == {<<>>, <<MetricsText(EarlierMetrics, 0)>>, <<Truncated>>}

\* metrics_collector = MetricsCollector() over one of those files
InitMetrics ==
    /\ job_metadata = EmptyDict
    /\ job_results = EmptyDict
    /\ jobs = LoadExistingJobs(job_metadata, job_results)
    /\ clock = 0
    /\ last = Returned("__init__", None, FALSE, FALSE, 0)
    /\ calls = 0
    /\ deleting = Idle
    /\ SearchEngineInit
    /\ metrics_file \in MetricsFiles
    /\ metrics = LoadMetrics(metrics_file)
    /\ lock = None
    /\ callers = [t \in Callers |-> NotCalling]
    /\ reported = <<>>
    /\ sampled = NoSample
    /\ NoThreads

SpecMetrics == InitMetrics /\ [][NextMetrics]_vars

----------------------------------------------------------------------------
(* _calculate_percentile over lists of samples *)

MaxSamples == 3

\* the lists of at most MaxSamples samples, the list of the documented
\* example, and fifty samples in falling order
SampleLists ==
    UNION {[1..n -> 1..3] : n \in 0..MaxSamples}
    \cup {<<1, 2, 3, 4>>, [i \in 1..50 |-> 51 - i]}

\* the percentiles get_metrics_summary asks for, and others
Percentiles == {0, 50, 58, 95, 100}

\* a list of samples and a percentile, before the call
InitPercentile ==
    /\ job_metadata = EmptyDict
    /\ job_results = EmptyDict
    /\ jobs = LoadExistingJobs(job_metadata, job_results)
    /\ clock = 0
    /\ last = Returned("__init__", None, FALSE, FALSE, 0)
    /\ calls = 0
    /\ deleting = Idle
    /\ SearchEngineInit
    /\ metrics_file = <<>>
    /\ metrics = LoadMetrics(metrics_file)
    /\ lock = None
    /\ callers = [t \in Callers |-> NotCalling]
    /\ reported = <<>>
    /\ \E data \in SampleLists, percentile \in Percentiles :
          sampled = [data |-> data, percentile |-> percentile,
                     done |-> FALSE, result |-> 0]
    /\ NoThreads

\* self._calculate_percentile(data, percentile)
percentile_call ==
    /\ ~sampled.done
    /\ sampled' = [sampled EXCEPT
            !.done = TRUE,
            !.result = calculate_percentile(sampled.data, sampled.percentile)]
    /\ UNCHANGED <<jobs, job_metadata, job_results, clock, last, calls,
                   deleting, searchVars, metrics, metrics_file, lock, callers,
                   reported, threadVars>>

NextPercentile == percentile_call

SpecPercentile == InitPercentile /\ [][NextPercentile]_vars

----------------------------------------------------------------------------
(* The latency buffers when they are full *)

MaxBufferCalls == 3

\* the collector of an earlier run after jobs jobs of one document each and
\* documents more documents, the i-th taking i seconds
LongRun(njobs, ndocuments) ==
    [jobs |-> EmptyDict,
     completed_jobs |->
        [i \in 1..njobs |->
            [JobMetrics("job" \o ToString(i), 0, 1) EXCEPT
                !.end_time = i, !.processing_time = i,
                !.successful_files = 1, !.status = "completed"]],
     document_metrics |->
        [DocumentMetrics EXCEPT
            !.total_processed = njobs,
            !.total_successful = njobs,
            !.total_processing_time = (njobs * (njobs + 1)) \div 2,
            !.local_processed = ndocuments,
            !.local_successful = ndocuments],
     job_latencies |-> [i \in 1..njobs |-> i],
     document_latencies |-> [i \in 1..ndocuments |-> i]]

\* metrics.json at start-up: both buffers one short of full, both full, and
\* a snapshot that holds two samples more than each deque keeps
BufferFiles ==
    {<<MetricsText(LongRun(JobLatencyMaxlen + d, DocumentLatencyMaxlen + d), 0)>> :
        d \in {-1, 0, 2}}

\* metrics_collector = MetricsCollector() over one of those files
InitBuffers ==
    /\ job_metadata = EmptyDict
    /\ job_results = EmptyDict
    /\ jobs = LoadExistingJobs(job_metadata, job_results)
    /\ clock = 0
    /\ last = Returned("__init__", None, FALSE, FALSE, 0)
    /\ calls = 0
    /\ deleting = Idle
    /\ SearchEngineInit
    /\ metrics_file \in BufferFiles
    /\ metrics = LoadMetrics(metrics_file)
    /\ lock = None
    /\ callers = [t \in Callers |-> NotCalling]
    /\ reported = <<>>
    /\ sampled = NoSample
    /\ NoThreads

\* one upload of one document after another, and restarts
NextBuffers ==
    \/ /\ calls < MaxBufferCalls
       /\ \/ metrics_call("t1", "start_job",
                          [job_id |-> "a1b2c3d4", total_files |-> 1])
          \/ metrics_call("t1", "complete_job",
                          [job_id |-> "a1b2c3d4", success |-> TRUE])
          \/ \E o \in DocumentOutcomes :
                metrics_call("t1", "record_document_processing",
                             [processing_time |-> o[1], success |-> o[2],
                              parser_type |-> o[3]])
          \/ Restart
    \/ lock_acquire("t1")
    \/ start_job("t1")
    \/ metrics_complete_job("t1")
    \/ metrics_complete_job_fold("t1")
    \/ record_document_processing("t1")
    \/ record_document_processing_count("t1")
    \/ \E outcome \in WriteOutcomes : save_metrics("t1", outcome)
    \/ lock_release("t1")

SpecBuffers == InitBuffers /\ [][NextBuffers]_vars

----------------------------------------------------------------------------
(* Properties of the metrics *)

\* the job ids of the completed list, in order
CompletedIds == [i \in 1..Len(metrics.completed_jobs) |->
                    metrics.completed_jobs[i].job_id]

\* the step is thread t running the body of op
Runs(t, op) == Inside(t, op, "body") /\ callers'[t].pc \notin {"body", "idle"}

\* C21: a JobMetric moves from the active map to the completed list exactly
\* once: no job id is both in the active map and in the completed list, no
\* job id is twice in the completed list, and complete_job for an id that is
\* not in the active map changes no state.
C21_MovesExactlyOnce ==
    /\ [](/\ \A i \in DOMAIN CompletedIds : CompletedIds[i] \notin DOMAIN metrics.jobs
          /\ \A i, j \in DOMAIN CompletedIds :
                CompletedIds[i] = CompletedIds[j] => i = j)
    /\ [][\A t \in Callers :
            (Runs(t, "complete_job")
             /\ callers[t].args.job_id \notin DOMAIN metrics.jobs)
            => /\ UNCHANGED <<metrics, metrics_file>>
               /\ callers'[t].pc = "unlock"]_vars

\* the sum of a field over a list of JobMetrics
SumOf(done, field) ==
    SumBetween([i \in 1..Len(done) |-> done[i][field]], 1, Len(done))

\* C22: get_metrics_summary reports jobs.total equal to the number of
\* completed jobs, and documents.total_processed, total_successful,
\* total_failed and total_skipped equal to the sums of total_files,
\* successful_files, failed_files and skipped_files over the completed jobs.
C22_SummaryIsSumOverCompleted ==
    [][\A t \in Callers :
         Runs(t, "get_metrics_summary") =>
            LET s == reported'[1]
                done == metrics.completed_jobs
            IN /\ s.jobs.total = Len(done)
               /\ s.documents.total_processed = SumOf(done, "total_files")
               /\ s.documents.total_successful = SumOf(done, "successful_files")
               /\ s.documents.total_failed = SumOf(done, "failed_files")
               /\ s.documents.total_skipped = SumOf(done, "skipped_files")]_vars

\* C22 witness: a summary over two completed jobs, one of them completed in
\* this run, with skipped files among the totals
C22_Witness ==
    /\ reported # <<>>
    /\ reported[1].jobs.total = 2
    /\ reported[1].documents.total_processed = 2 * MaxFiles
    /\ reported[1].documents.total_skipped > 0
    /\ Len(metrics.completed_jobs) = 2
    /\ metrics.completed_jobs[2].job_id = "a1b2c3d4"

\* the sample at index k, counted from 0, of the ascending sort of data
IsRanked(data, k, v) ==
    /\ v \in Range(data)
    /\ Cardinality({j \in DOMAIN data : data[j] < v}) <= k
    /\ k < Cardinality({j \in DOMAIN data : data[j] <= v})

\* C23 as stated: for a non-empty list of n samples the helper returns the
\* element at index min(floor(p/100 * n), n-1) of the ascending sort, and
\* for an empty list 0.0.
C23_NearestRank ==
    sampled.done =>
        LET n == Len(sampled.data)
            k == Min({(sampled.percentile * n) \div 100, n - 1})
        IN IF n = 0 THEN sampled.result = 0
           ELSE IsRanked(sampled.data, k, sampled.result)

\* C23, amended: the index is min(int((p/100) * n), n-1) with the product
\* taken in double precision, which is floor(p * n / 100) except for the
\* (p, n) of PercentileShortfall, where it is one less; the result is one of
\* the samples, and 0.0 for an empty list.
C23_NearestRankInDoubles ==
    sampled.done =>
        LET n == Len(sampled.data)
            p == sampled.percentile
            exact == (p * n) \div 100
            k == Min({IF <<p, n>> \in PercentileShortfall
                      THEN exact - 1 ELSE exact, n - 1})
        IN IF n = 0 THEN sampled.result = 0
           ELSE IsRanked(sampled.data, k, sampled.result)

\* C23 witness: percentile([1, 2, 3, 4], 50) has returned 3
C23_Witness ==
    /\ sampled.done
    /\ sampled.data = <<1, 2, 3, 4>>
    /\ sampled.percentile = 50
    /\ sampled.result = 3

\* what a bounded FIFO of that capacity holds after x arrives
Arrived(d, x, capacity) ==
    IF Len(d) = capacity
    THEN [i \in 1..capacity |-> IF i < capacity THEN d[i + 1] ELSE x]
    ELSE [i \in 1..(Len(d) + 1) |-> IF i <= Len(d) THEN d[i] ELSE x]

\* C24: in every reachable state, right after loading a snapshot too, the
\* job buffer holds at most 1000 samples and the document buffer at most
\* 10000, and appending to a full buffer drops exactly the oldest sample and
\* keeps the others in arrival order.
C24_BuffersAreBoundedFifos ==
    /\ [](/\ Len(metrics.job_latencies) <= JobLatencyMaxlen
          /\ Len(metrics.document_latencies) <= DocumentLatencyMaxlen)
    /\ [][\A t \in Callers :
            /\ Runs(t, "record_document_processing") =>
                  metrics'.document_latencies =
                      Arrived(metrics.document_latencies,
                              callers[t].args.processing_time,
                              DocumentLatencyMaxlen)
            /\ (Inside(t, "complete_job", "fold") /\ callers'[t].pc = "save") =>
                  metrics'.job_latencies =
                      Arrived(metrics.job_latencies,
                              metrics.completed_jobs[Len(metrics.completed_jobs)]
                                  .processing_time,
                              JobLatencyMaxlen)]_vars

\* C24 witness: both buffers were full, a job has been completed and a
\* document recorded, and each buffer has lost sample 1 and ends with the
\* new sample behind the ones it had
C24_Witness ==
    /\ Len(metrics.job_latencies) = JobLatencyMaxlen
    /\ metrics.job_latencies[1] = 2
    /\ metrics.job_latencies[JobLatencyMaxlen - 1] = JobLatencyMaxlen
    /\ metrics.job_latencies[JobLatencyMaxlen] = 0
    /\ Len(metrics.completed_jobs) = JobLatencyMaxlen + 1
    /\ Len(metrics.document_latencies) = DocumentLatencyMaxlen
    /\ metrics.document_latencies[1] = 2
    /\ metrics.document_latencies[DocumentLatencyMaxlen - 1] = DocumentLatencyMaxlen
    /\ metrics.document_latencies[DocumentLatencyMaxlen] = 3

\* every job of the completed list has its counters and its latency sample
\* in the totals and in the job buffer
FoldedIn(m) ==
    /\ m.document_metrics.total_processed = SumOf(m.completed_jobs, "total_files")
    /\ m.document_metrics.total_successful =
           SumOf(m.completed_jobs, "successful_files")
    /\ m.document_metrics.total_failed = SumOf(m.completed_jobs, "failed_files")
    /\ m.document_metrics.total_skipped = SumOf(m.completed_jobs, "skipped_files")
    /\ m.document_metrics.total_processing_time =
           SumOf(m.completed_jobs, "processing_time")
    /\ Len(m.job_latencies) = Min({Len(m.completed_jobs), JobLatencyMaxlen})

\* the threads that are inside a with self.lock block
InsideLock == {t \in Callers : callers[t].pc \notin {"idle", "lock"}}

\* C25: under any interleaving of threads calling the collector, the calls
\* take effect as if executed one at a time: at most one thread is inside a
\* call's body, no summary and no persisted snapshot shows a completed job
\* whose counters or latency sample are not folded in, and no increment is
\* lost: what a thread has read for its += 1 is still the value when it
\* writes.
C25_CallsAreSerialized ==
    /\ [](/\ InsideLock \subseteq {lock}
          /\ (lock = None => FoldedIn(metrics))
          /\ (Len(metrics_file) = 1 /\ Decodes(metrics_file[1]))
                => FoldedIn(LoadMetrics(metrics_file))
          /\ \A t \in Callers :
                callers[t].pc = "count" =>
                    callers[t].read =
                        ReadCounters(metrics, callers[t].args.success,
                                     callers[t].args.parser_type))
    /\ [][\A t \in Callers :
            Runs(t, "get_metrics_summary") => FoldedIn(metrics)]_vars

\* C25 witness: one thread is between the two halves of complete_job, with
\* the job in the completed list and not yet in the totals, while the other
\* has called get_metrics_summary and waits for the lock
C25_Witness ==
    \E t, u \in Callers :
        /\ Inside(t, "complete_job", "fold")
        /\ ~FoldedIn(metrics)
        /\ callers[u].pc = "lock"
        /\ callers[u].op = "get_metrics_summary"

\* the write of thread t's call has failed and the call is about to return
WriteFailed(t) ==
    /\ callers[t].pc = "unlock"
    /\ callers[t].wrote \in {"open_failed", "dump_failed"}

\* the collector holds what the call of thread t was to do
Applied(t) ==
    LET a == callers[t].args
        op == callers[t].op
        done == metrics.completed_jobs
    IN /\ op = "start_job" =>
              /\ a.job_id \in DOMAIN metrics.jobs
              /\ metrics.jobs[a.job_id].total_files = a.total_files
              /\ metrics.jobs[a.job_id].status = "processing"
              /\ metrics.jobs[a.job_id].start_time <= clock
       /\ op = "update_job_progress" =>
              /\ a.job_id \in DOMAIN metrics.jobs
              /\ metrics.jobs[a.job_id].successful_files = a.counts[1]
              /\ metrics.jobs[a.job_id].failed_files = a.counts[2]
              /\ metrics.jobs[a.job_id].skipped_files = a.counts[3]
       /\ op = "complete_job" =>
              /\ a.job_id \notin DOMAIN metrics.jobs
              /\ Len(done) > 0
              /\ done[Len(done)].job_id = a.job_id
              /\ done[Len(done)].status =
                     (IF a.success THEN "completed" ELSE "failed")
              /\ done[Len(done)].end_time <= clock
              /\ FoldedIn(metrics)
       /\ op = "record_document_processing" =>
              /\ Len(metrics.document_latencies) > 0
              /\ metrics.document_latencies[Len(metrics.document_latencies)]
                     = a.processing_time
              /\ metrics.document_metrics.llm_processed
                     + metrics.document_metrics.local_processed
                 = Len(metrics.document_latencies)

\* C26: when writing the snapshot fails, the mutating call still returns
\* normally with its in-memory effect fully applied, the lock is released,
\* and later calls and summaries see that in-memory state.
C26_FailedWriteKeepsEffect ==
    /\ [](/\ \A t \in Callers : WriteFailed(t) => (lock = t /\ Applied(t))
          /\ lock # None => callers[lock].pc \notin {"idle", "lock"})
    /\ [][\A t \in Callers :
            /\ (callers[t].pc = "save" /\ callers'[t].pc # "save")
                   => /\ callers'[t].pc \in {"unlock", "idle"}
                      /\ (callers'[t].pc = "unlock" => metrics' = metrics)
            /\ (WriteFailed(t) /\ callers'[t] # callers[t])
                   => /\ callers'[t].pc = "idle"
                      /\ lock' = None
            /\ Runs(t, "get_metrics_summary")
                   => /\ reported'[1].jobs.total = Len(metrics.completed_jobs)
                      /\ reported'[1].jobs.currently_processing
                             = Cardinality(DOMAIN metrics.jobs)]_vars

\* C26 witness: the write of complete_job has failed and left a cut text,
\* the call has returned, the lock is free, and a later summary counts the
\* completed job
C26_Witness ==
    /\ metrics_file = <<Truncated>>
    /\ lock = None
    /\ reported # <<>>
    /\ reported[1].jobs.total = 1
    /\ Len(metrics.completed_jobs) = 1
    /\ metrics.completed_jobs[1].job_id = "a1b2c3d4"

\* the collector a start-up builds now has the completed list, the totals
\* and both buffers of the running one, and an empty active map
RestartsAlike ==
    LET started == LoadMetrics(metrics_file)
    IN /\ started.completed_jobs = metrics.completed_jobs
       /\ started.document_metrics = metrics.document_metrics
       /\ started.job_latencies = metrics.job_latencies
       /\ started.document_latencies = metrics.document_latencies
       /\ started.jobs = EmptyDict

----------------------------------------------------------------------------
(* SearchEngine.index_document called by several upload threads *)

MaxIndexCalls == 2

\* the request threads that are inside bulk_upload at the same time
Indexers == {"u1", "u2"}

\* the parsed contents the uploads index
IndexedContents == {[title |-> "Flask Guide"], [title |-> "Web Search"]}

\* a thread that is not inside index_document
NotIndexing ==
    [pc |-> "idle", document_content |-> EmptyDict, doc_id |-> None,
     read |-> 0, terms |-> <<>>, position |-> 0]

\* SearchEngine() and the upload threads before their first document;
\* returned lists the calls that have returned, with the id each one got
InitIndexers ==
    /\ job_metadata = EmptyDict
    /\ job_results = EmptyDict
    /\ jobs = LoadExistingJobs(job_metadata, job_results)
    /\ clock = 0
    /\ last = Returned("__init__", None, FALSE, FALSE, 0)
    /\ calls = 0
    /\ deleting = Idle
    /\ SearchEngineInit
    /\ MetricsCollectorInit
    /\ indexers = [at |-> [u \in Indexers |-> NotIndexing], returned |-> <<>>]
    /\ upload = EmptyDict

\* the other variables of a step of index_document
NotIndex == <<jobs, job_metadata, job_results, clock, last, deleting,
              searched, metricsVars, upload>>

\* thread u goes on as local
Indexing(u, local) == [indexers EXCEPT !.at[u] = local]

\* search_engine.index_document(parsed_content, filename) is entered
index_document_call(u, document_content) ==
    /\ indexers.at[u].pc = "idle"
    /\ indexers' = Indexing(u, [NotIndexing EXCEPT
                                   !.pc = "doc_id",
                                   !.document_content = document_content])
    /\ calls' = calls + 1
    /\ UNCHANGED <<index, documents, document_count, NotIndex>>

\* doc_id = f"doc_{self.document_count}"
index_document_doc_id(u) ==
    /\ indexers.at[u].pc = "doc_id"
    /\ indexers' = Indexing(u, [indexers.at[u] EXCEPT
                                   !.pc = "load",
                                   !.doc_id = DocId(document_count)])
    /\ UNCHANGED <<index, documents, document_count, calls, NotIndex>>

\* self.document_count += 1: the attribute is read
index_document_load(u) ==
    /\ indexers.at[u].pc = "load"
    /\ indexers' = Indexing(u, [indexers.at[u] EXCEPT
                                   !.pc = "store", !.read = document_count])
    /\ UNCHANGED <<index, documents, document_count, calls, NotIndex>>

\* self.document_count += 1: the sum is written back
index_document_store(u) ==
    /\ indexers.at[u].pc = "store"
    /\ document_count' = indexers.at[u].read + 1
    /\ indexers' = Indexing(u, [indexers.at[u] EXCEPT !.pc = "document"])
    /\ UNCHANGED <<index, documents, calls, NotIndex>>

\* the call of thread u returns its doc_id
IndexReturned(u) ==
    [indexers EXCEPT
        !.at[u] = NotIndexing,
        !.returned = Append(@, [doc_id |-> indexers.at[u].doc_id,
                                document_content |->
                                    indexers.at[u].document_content])]

\* self.documents[doc_id] = {...}, and the terms of the searchable text
index_document_document(u) ==
    /\ indexers.at[u].pc = "document"
    /\ LET local == indexers.at[u]
           searchable_text == create_searchable_text(local.document_content)
           terms == IF searchable_text # ""
                    THEN tokenize(searchable_text) ELSE <<>>
       IN /\ documents' = Put(documents, local.doc_id,
                              StoredDocument(local.document_content, "a.pdf"))
          /\ indexers' = IF Len(terms) = 0
                         THEN IndexReturned(u)
                         ELSE Indexing(u, [local EXCEPT !.pc = "post",
                                                        !.terms = terms])
    /\ UNCHANGED <<index, document_count, calls, NotIndex>>

\* self.index[term].append((doc_id, position)) for the next term
index_document_post(u) ==
    /\ indexers.at[u].pc = "post"
    /\ LET local == indexers.at[u]
           term == local.terms[local.position + 1]
       IN /\ index' = [t \in (DOMAIN index) \cup {term} |->
                          (IF t \in DOMAIN index THEN index[t] ELSE <<>>)
                          \o (IF t = term
                              THEN <<<<local.doc_id, local.position>>>>
                              ELSE <<>>)]
          /\ indexers' = IF local.position + 1 = Len(local.terms)
                         THEN IndexReturned(u)
                         ELSE Indexing(u, [local EXCEPT
                                              !.position = local.position + 1])
    /\ UNCHANGED <<documents, document_count, calls, NotIndex>>

NextIndexers ==
    \E u \in Indexers :
        \/ /\ calls < MaxIndexCalls
           /\ \E document_content \in IndexedContents :
                 index_document_call(u, document_content)
        \/ index_document_doc_id(u)
        \/ index_document_load(u)
        \/ index_document_store(u)
        \/ index_document_document(u)
        \/ index_document_post(u)

SpecIndexers == InitIndexers /\ [][NextIndexers]_vars

\* every call has returned
IndexersDone == \A u \in Indexers : indexers.at[u].pc = "idle"

\* C28: concurrent index_document calls cannot corrupt the index or lose
\* results: when the calls have returned, each call has got a distinct
\* document id, the document table has one entry per call, and every posting
\* refers to the document whose tokens produced it.
C28_ConcurrentIndexingIsSafe ==
    IndexersDone =>
        LET returned == indexers.returned
        IN /\ \A i, j \in DOMAIN returned :
                 returned[i].doc_id = returned[j].doc_id => i = j
           /\ Cardinality(DOMAIN documents) = Len(returned)
           /\ \A term \in DOMAIN index :
                 \A k \in DOMAIN index[term] :
                    LET doc_id == index[term][k][1]
                        position == index[term][k][2]
                    IN /\ doc_id \in DOMAIN documents
                       /\ LET terms == tokenize(documents[doc_id].title)
                          IN /\ position < Len(terms)
                             /\ terms[position + 1] = term

----------------------------------------------------------------------------
(* bulk_upload in its request thread, with deletions by other requests *)

MaxUploadCalls == 2

\* what happens to one file: it is parsed and indexed, validate_file turns it
\* away with a skip_reason, or an exception is caught
UploadOutcomes ==
    {o \in FileOutcomes :
        \/ o.success
        \/ o.skip_reason = "page_limit"
        \/ o.error = "connection timed out"}

\* no upload request yet
NotUploading ==
    [pc |-> "idle", job_id |-> None, total_files |-> 0, i |-> 0,
     success_count |-> 0, error_count |-> 0, skipped_count |-> 0,
     doc_start_time |-> 0, outcome |-> EmptyDict]

\* the three components before the first request
InitUpload ==
    /\ job_metadata = EmptyDict
    /\ job_results = EmptyDict
    /\ jobs = LoadExistingJobs(job_metadata, job_results)
    /\ clock = 0
    /\ last = Returned("__init__", None, FALSE, FALSE, 0)
    /\ calls = 0
    /\ deleting = Idle
    /\ SearchEngineInit
    /\ MetricsCollectorInit
    /\ indexers = EmptyDict
    /\ upload = NotUploading

\* the variables no step of the upload thread changes
NotUpload == <<clock, calls, deleting, searched, lock, callers, reported,
               sampled, indexers>>

\* job_id = job_manager.create_job(len(files), metadata_options, 'Local')
upload_create_job(job_id, total_files) ==
    /\ upload.pc = "idle"
    /\ job_id \notin DOMAIN jobs
    /\ jobs' = Put(jobs, job_id,
                   NewJob(job_id, total_files, MetadataOptions, "Local", clock))
    /\ job_metadata' = SaveJobMetadata(jobs', job_metadata, job_id)
    /\ last' = Returned("create_job", job_id, FALSE, TRUE, 0)
    /\ upload' = [NotUploading EXCEPT !.pc = "start_job", !.job_id = job_id,
                                      !.total_files = total_files]
    /\ UNCHANGED <<job_results, index, documents, document_count, metrics,
                   metrics_file, NotUpload>>

\* metrics_collector.start_job(job_id, len(files))
upload_start_job ==
    /\ upload.pc = "start_job"
    /\ metrics' = StartedJob(metrics, upload.job_id, upload.total_files, clock)
    /\ metrics_file' = SaveMetrics(metrics_file, metrics', clock, "written")
    /\ upload' = [upload EXCEPT !.pc = "file"]
    /\ UNCHANGED <<jobs, job_metadata, job_results, last, index, documents,
                   document_count, NotUpload>>

\* the head of the loop: job_manager.update_job_progress(job_id,
\* original_filename, i + 1, success_count, error_count)
upload_update_job_progress ==
    /\ upload.pc = "file"
    /\ upload.i < upload.total_files
    /\ IF upload.job_id \notin DOMAIN jobs
       THEN UNCHANGED <<jobs, job_metadata>>
       ELSE /\ jobs' = Put(jobs, upload.job_id,
                  Progressed(jobs[upload.job_id], "a.pdf", upload.i + 1,
                             upload.success_count, upload.error_count))
            /\ job_metadata' = SaveJobMetadata(jobs', job_metadata, upload.job_id)
    /\ last' = Returned("update_job_progress", upload.job_id, FALSE,
                        upload.job_id \in DOMAIN jobs, 0)
    /\ upload' = [upload EXCEPT !.pc = "parse", !.doc_start_time = clock]
    /\ UNCHANGED <<job_results, index, documents, document_count, metrics,
                   metrics_file, NotUpload>>

\* the try block up to the outcome of the file, and the counter it adds to
upload_parse(o) ==
    /\ upload.pc = "parse"
    /\ upload' = [upload EXCEPT
            !.outcome = o,
            !.pc = IF o.success THEN "index" ELSE "result",
            !.skipped_count = IF ~o.success /\ o.skip_reason # None
                              THEN @ + 1 ELSE @,
            !.error_count = IF ~o.success /\ o.skip_reason = None
                            THEN @ + 1 ELSE @]
    /\ UNCHANGED <<jobs, job_metadata, job_results, last, index, documents,
                   document_count, metrics, metrics_file, NotUpload>>

\* search_engine.index_document(parsed_content, filename); success_count += 1
upload_index_document ==
    /\ upload.pc = "index"
    /\ LET doc_id == DocId(document_count)
           searchable_text == create_searchable_text(upload.outcome.metadata)
       IN /\ document_count' = document_count + 1
          /\ documents' = Put(documents, doc_id,
                              StoredDocument(upload.outcome.metadata, "a.pdf"))
          /\ index' = IF searchable_text # ""
                      THEN Posted(index, tokenize(searchable_text), doc_id)
                      ELSE index
    /\ upload' = [upload EXCEPT !.pc = "result", !.success_count = @ + 1]
    /\ UNCHANGED <<jobs, job_metadata, job_results, last, metrics,
                   metrics_file, NotUpload>>

\* job_manager.add_file_result(job_id, original_filename, ...)
upload_add_file_result ==
    /\ upload.pc = "result"
    /\ IF upload.job_id \notin DOMAIN jobs
       THEN UNCHANGED <<jobs, job_metadata>>
       ELSE /\ jobs' = Put(jobs, upload.job_id,
                  WithResult(jobs[upload.job_id], "a.pdf", upload.outcome, clock))
            /\ job_metadata' = SaveJobMetadata(jobs', job_metadata, upload.job_id)
    /\ last' = Returned("add_file_result", upload.job_id,
                        upload.outcome.success, upload.job_id \in DOMAIN jobs, 0)
    /\ upload' = [upload EXCEPT !.pc = "record"]
    /\ UNCHANGED <<job_results, index, documents, document_count, metrics,
                   metrics_file, NotUpload>>

\* metrics_collector.record_document_processing(doc_processing_time, success)
upload_record_document_processing ==
    /\ upload.pc = "record"
    /\ LET sampled_ == SampledDocument(metrics, clock - upload.doc_start_time)
       IN metrics' = CountedDocument(sampled_, upload.outcome.success, "local",
                         ReadCounters(sampled_, upload.outcome.success, "local"))
    /\ metrics_file' = SaveMetrics(metrics_file, metrics', clock, "written")
    /\ upload' = [upload EXCEPT !.pc = "file", !.i = @ + 1,
                                !.outcome = EmptyDict]
    /\ UNCHANGED <<jobs, job_metadata, job_results, last, index, documents,
                   document_count, NotUpload>>

\* after the loop: metrics_collector.update_job_progress(job_id,
\* success_count, error_count, skipped_count)
upload_metrics_update_job_progress ==
    /\ upload.pc = "file"
    /\ upload.i = upload.total_files
    /\ IF upload.job_id \in DOMAIN metrics.jobs
       THEN /\ metrics' = ProgressedJob(metrics, upload.job_id,
                              upload.success_count, upload.error_count,
                              upload.skipped_count)
            /\ metrics_file' = SaveMetrics(metrics_file, metrics', clock, "written")
       ELSE UNCHANGED <<metrics, metrics_file>>
    /\ upload' = [upload EXCEPT !.pc = "complete_job"]
    /\ UNCHANGED <<jobs, job_metadata, job_results, last, index, documents,
                   document_count, NotUpload>>

\* job_manager.complete_job(job_id, success=True)
upload_complete_job ==
    /\ upload.pc = "complete_job"
    /\ IF upload.job_id \notin DOMAIN jobs
       THEN UNCHANGED <<jobs, job_metadata, job_results>>
       ELSE /\ jobs' = Put(jobs, upload.job_id,
                           Finished(jobs[upload.job_id], TRUE, clock))
            /\ job_results' = SaveJobResults(jobs', job_results, upload.job_id)
            /\ job_metadata' = SaveJobMetadata(jobs', job_metadata, upload.job_id)
    /\ last' = Returned("complete_job", upload.job_id, TRUE,
                        upload.job_id \in DOMAIN jobs, 0)
    /\ upload' = [upload EXCEPT !.pc = "metrics_complete_job"]
    /\ UNCHANGED <<index, documents, document_count, metrics, metrics_file,
                   NotUpload>>

\* metrics_collector.complete_job(job_id, success=True), and the response
upload_metrics_complete_job ==
    /\ upload.pc = "metrics_complete_job"
    /\ IF upload.job_id \in DOMAIN metrics.jobs
       THEN /\ LET moved == MovedJob(metrics, upload.job_id, TRUE, clock)
               IN metrics' = FoldedJob(moved,
                                 moved.completed_jobs[Len(moved.completed_jobs)])
            /\ metrics_file' = SaveMetrics(metrics_file, metrics', clock, "written")
       ELSE UNCHANGED <<metrics, metrics_file>>
    /\ upload' = [upload EXCEPT !.pc = "done"]
    /\ UNCHANGED <<jobs, job_metadata, job_results, last, index, documents,
                   document_count, NotUpload>>

\* the steps of the request thread once the job is created
UploadSteps ==
    \/ upload_start_job
    \/ upload_update_job_progress
    \/ \E o \in UploadOutcomes : upload_parse(o)
    \/ upload_index_document
    \/ upload_add_file_result
    \/ upload_record_document_processing
    \/ upload_metrics_update_job_progress
    \/ upload_complete_job
    \/ upload_metrics_complete_job

\* one upload request, and DELETE /jobs/<id> and POST /jobs/clear requests of
\* other threads
NextUpload ==
    \/ \E job_id \in JobIds : upload_create_job(job_id, MaxFiles)
    \/ UploadSteps
    \/ /\ calls < MaxUploadCalls
       /\ \E job_id \in JobIds : delete_job(job_id)
    \/ delete_job_metadata
    \/ delete_job_results
    \/ delete_job_entry
    \/ /\ calls < MaxUploadCalls
       /\ clear_all_jobs
    \/ clear_all_jobs_results
    \/ clear_all_jobs_entries

\* the request thread is scheduled as long as it has a step to take
SpecUpload == InitUpload /\ [][NextUpload]_vars /\ WF_vars(UploadSteps)

\* the upload request has created job id
Created(id) == upload.pc # "idle" /\ upload.job_id = id

\* C29: every job a bulk upload creates eventually finishes: under fair
\* scheduling of the handling thread, the job eventually has status
\* Completed or Failed in the job ledger, and its JobMetric eventually
\* leaves the active map for the completed list, whatever the per-file
\* outcomes and whatever deletions run concurrently.
C29_EveryJobFinishes ==
    \A id \in JobIds :
        /\ Created(id) ~> (/\ id \in DOMAIN jobs
                           /\ jobs[id].status \in FinishedStatuses)
        /\ Created(id) ~> (/\ id \notin DOMAIN metrics.jobs
                           /\ \E i \in DOMAIN CompletedIds : CompletedIds[i] = id)

\* a deletion of job id has run to its end: the entry is removed, which
\* only delete_job and clear_all_jobs do, and no deletion is in progress
Deleted(id) == deleting = Idle /\ id \notin DOMAIN jobs

\* C30: deleting a job while its upload thread is still processing it does
\* not let the job come back: once the deletion and the thread have both
\* finished, the job has no in-memory entry, no metadata file and no results
\* log, so a restart does not reconstruct it.
C30_DeletedDuringUploadStaysGone ==
    (upload.pc = "done" /\ Deleted(upload.job_id)) =>
        /\ upload.job_id \notin DOMAIN job_metadata
        /\ upload.job_id \notin DOMAIN job_results
        /\ upload.job_id \notin DOMAIN LoadExistingJobs(job_metadata, job_results)

====
